---------------------------- MODULE Spec2Model ----------------------------
(***************************************************************************)
(* sol-agent: the heartbeat daemon, the survival tier engine and the       *)
(* self-modification guard / audit log, as state machines.                 *)
(*                                                                         *)
(* The module holds these specifications over one set of variables:        *)
(*   SpecTier     getSurvivalTier as applied by tick()                     *)
(*   SpecExec     the exec tool and the forbidden-command guard            *)
(*   SpecFiles    write_file and edit_own_file over the protected files    *)
(*   SpecAudit    the audit log module                                     *)
(*   SpecSelfMod  the self-modification tools and their audit entries      *)
(*   SpecDaemon   createHeartbeatDaemon: start, stop, timer, tick, tasks   *)
(*   SpecDaemonFaults  the same daemon over a database whose reads throw   *)
(*   SpecDaemonMixed   the daemon with throwing reads and throwing tasks   *)
(*   SpecDaemonOverlap the daemon with two ticks in flight                 *)
(*   SpecForceRun      forceRun beside a started or stopped daemon         *)
(*   SpecCreditCheck   the check_credits task and its KV keys              *)
(*  SpecPing          the heartbeat_ping task and its KV keys              *)
(*  SpecSurvival      recordTransition and canRunInference                 *)
(*  SpecHeartbeatEdit modify_heartbeat beside a running daemon             *)
(*  SpecTwoDaemons    two daemons created over one database                *)
(*  SpecSandbox       create_sandbox and delete_sandbox                    *)
(*  SpecWallet        getWallet and walletExists over damaged files        *)
(*  SpecDue           isDue applied to entries and times                   *)
(*  SpecDaemonConfig  the daemon over entries edited by modify_heartbeat   *)
(*  SpecHistory       recordTransition over a long run of transitions      *)
(*  SpecInbox         the check_social_inbox task                          *)
(*  SpecTasks         the check_for_updates and health_check tasks         *)
(*  SpecRegistry      registerAgent and its retries                        *)
(*  SpecForceOverlap  forceRun beside ticks that run tasks                 *)
(* A specification leaves the variables of the other parts untouched.      *)
(***************************************************************************)
EXTENDS Integers, Sequences, FiniteSets, Bags, TLC

VARIABLES
    \* ---- survival tier engine
    credits,        \* the balance handed to getSurvivalTier
    tier,           \* its result, "unset" before the call
    prevCredits,    \* the balance of the previous evaluation
    prevTier,       \* the result of the previous evaluation
    \* ---- exec tool
    execCommand,    \* args.command of the latest exec tool call
    execResult,     \* what the tool call returned
    sandboxExec,    \* what the call passed to agentClient.exec, NoCall if nothing
    \* ---- persisted state and clock shared by the tools
    clock,          \* Date.now(), in abstract time units
    mods,           \* the modifications table (the audit log), oldest first
    ulidCount,      \* how many ids ulid() has generated
    \* ---- file tools
    files,          \* the sandbox file system: path -> content
    fileCall,       \* the latest write_file / edit_own_file call and its result
    sandboxWrite,   \* what that call passed to agentClient.writeFile, NoCall if nothing
    auditReturn,    \* what the latest call of the audit module returned
    \* ---- self-modification tools
    hbEntries,      \* the heartbeat_entries table: name -> row
    genesisPrompt,  \* config.genesisPrompt
    selfModOps,     \* how many tool calls have changed the agent (table, code, packages, prompt)
    selfModCall,    \* the latest self-modification tool call and its result
    \* ---- heartbeat daemon (the closure state of createHeartbeatDaemon)
    running,                \* let running
    timerArmed,             \* intervalId !== null
    consecutiveTickErrors,  \* let consecutiveTickErrors
    consecutiveTaskErrors,  \* the Map entry name -> count, 0 where the key is absent
    ticks,                  \* the bag of tick() calls suspended at an await
    wakeLog,                \* the onWakeRequest calls made by the latest daemon step
    daemonOp,               \* the latest daemon step: operation, entry, outcome
    failStreak,             \* history: failures of each entry since its latest success
    tickFailStreak,         \* history: failed ticks since the latest successful tick
    forced,                 \* the bag of forceRun() calls suspended in executeTask
    prev_credit_tier,       \* KV "prev_credit_tier", None while the key is absent
    last_credit_check,      \* KV "last_credit_check", NoRecord while the key is absent
    creditCheck,            \* what the latest check_credits call did and returned
    last_heartbeat_ping,    \* KV "last_heartbeat_ping", NoSnapshot while the key is absent
    last_distress,          \* KV "last_distress", NoDistress while the key is absent
    pingResult,             \* what the latest heartbeat_ping call did and returned
    \* ---- survival/low-compute
    tier_transitions,       \* KV "tier_transitions": the history, oldest first
    transitionCall,         \* the latest recordTransition call and what it returned
    inferenceCheck,         \* the latest canRunInference call and what it returned
    \* ---- a second daemon, made by another createHeartbeatDaemon call
    peer,                   \* its closure: running, intervalId, the failure counters
    \* ---- the sandboxes of the agent
    sandboxes,              \* the ids of the sandboxes that exist
    deleteCall,             \* the latest delete_sandbox tool call
    \* ---- identity/wallet
    walletFile,             \* wallet.json: what the file holds
    walletBackup,           \* wallet.json.bak: what the file holds
    keysGenerated,          \* the number of Keypair.generate() calls so far
    walletCall,             \* the wallet API call made since the files last changed
    \* ---- heartbeat/daemon: isDue
    dueCall,                \* the latest call of isDue: its entry, the time, its result
    \* ---- heartbeat/tasks: check_social_inbox
    inbox,                  \* how often insertInboxMessage was called for each message id
    inbox_seen,             \* the ids with a KV key "inbox_seen_<id>"
    social_inbox_cursor,    \* KV "social_inbox_cursor", "" while the key is absent
    inboxPoll,              \* the latest check_social_inbox call and what it returned
    \* ---- heartbeat/tasks: check_for_updates
    upstream_fetch_error,   \* KV "upstream_fetch_error", None while the key is absent
    upstream_status,        \* KV "upstream_status", NoStatus while the key is absent
    updateCheck,            \* the latest check_for_updates call and what it returned
    \* ---- heartbeat/tasks: health_check
    last_health_check,      \* KV "last_health_check", NullTime while the key is absent
    healthCheck,            \* the latest health_check call and what it returned
    \* ---- registry/solana: registerAgent
    reg,                    \* the registerAgent call: where it is, its locals, what it did
    chainAssets,            \* the asset addresses that exist on chain
    registryEntries,        \* the entries handed to db.setRegistryEntry, oldest first
    signers                 \* the number of generateSigner() calls so far

tierVars == <<credits, tier, prevCredits, prevTier>>
execVars == <<execCommand, execResult, sandboxExec>>
auditVars == <<clock, mods, ulidCount>>
fileVars == <<files, fileCall, sandboxWrite>>
selfModVars == <<hbEntries, genesisPrompt, selfModOps, selfModCall>>
daemonVars ==
    <<running, timerArmed, consecutiveTickErrors, consecutiveTaskErrors, ticks,
      wakeLog, daemonOp, failStreak, tickFailStreak, forced>>
creditKv == <<prev_credit_tier, last_credit_check, creditCheck>>
pingKv == <<last_heartbeat_ping, last_distress, pingResult>>
survivalVars == <<tier_transitions, transitionCall, inferenceCheck>>
kvVars == <<creditKv, pingKv, survivalVars>>
sandboxVars == <<sandboxes, deleteCall>>
walletVars == <<walletFile, walletBackup, keysGenerated, walletCall>>
inboxVars == <<inbox, inbox_seen, social_inbox_cursor, inboxPoll>>
updateVars == <<upstream_fetch_error, upstream_status, updateCheck>>
healthVars == <<last_health_check, healthCheck>>
registryVars == <<reg, chainAssets, registryEntries, signers>>
lateVars == <<inboxVars, updateVars, healthVars, registryVars>>
sideVars == <<kvVars, peer, sandboxVars, walletVars, dueCall, lateVars>>
vars ==
    <<tierVars, execVars, auditVars, fileVars, auditReturn, selfModVars, daemonVars,
      sideVars>>

\* what the actions of one part leave alone
OutsideTier ==
    <<execVars, auditVars, fileVars, auditReturn, selfModVars, daemonVars, sideVars>>
OutsideExec ==
    <<tierVars, auditVars, fileVars, auditReturn, selfModVars, daemonVars, sideVars>>
OutsideTools == <<tierVars, execVars, daemonVars, sideVars>>
OutsideFiles == <<OutsideTools, auditReturn, selfModVars>>
OutsideAudit == <<OutsideTools, fileVars, selfModVars>>
OutsideSelfMod == <<OutsideTools, fileVars, auditReturn>>
OutsideDaemon ==
    <<tierVars, execVars, mods, ulidCount, fileVars, auditReturn,
      genesisPrompt, selfModOps, selfModCall, forced, sideVars>>
OutsideForceRun ==
    <<tierVars, execVars, mods, ulidCount, fileVars, auditReturn,
      genesisPrompt, selfModOps, selfModCall, sideVars,
      running, timerArmed, consecutiveTickErrors, ticks, tickFailStreak>>
OutsideCreditCheck ==
    <<tierVars, execVars, auditVars, fileVars, auditReturn, selfModVars, daemonVars,
      pingKv, survivalVars, peer, sandboxVars, walletVars, dueCall, lateVars>>
OutsidePing ==
    <<tierVars, execVars, auditVars, fileVars, auditReturn, selfModVars, daemonVars,
      creditKv, survivalVars, peer, sandboxVars, walletVars, dueCall, lateVars>>
OutsideSurvival ==
    <<tierVars, execVars, auditVars, fileVars, auditReturn, selfModVars, daemonVars,
      creditKv, pingKv, peer, sandboxVars, walletVars, dueCall, lateVars>>
OutsidePeer ==
    <<tierVars, execVars, auditVars, fileVars, auditReturn, selfModVars, daemonVars,
      kvVars, sandboxVars, walletVars, dueCall, lateVars>>
OutsideSandbox ==
    <<tierVars, auditVars, fileVars, auditReturn, selfModVars, daemonVars, kvVars, peer,
      walletVars, dueCall, lateVars>>
OutsideWallet ==
    <<tierVars, execVars, auditVars, fileVars, auditReturn, selfModVars, daemonVars,
      kvVars, peer, sandboxVars, dueCall, lateVars>>
OutsideDue ==
    <<tierVars, execVars, auditVars, fileVars, auditReturn, selfModVars, daemonVars,
      kvVars, peer, sandboxVars, walletVars, lateVars>>
earlyVars ==
    <<tierVars, execVars, auditVars, fileVars, auditReturn, selfModVars, daemonVars,
      kvVars, peer, sandboxVars, walletVars, dueCall>>
OutsideInbox == <<earlyVars, updateVars, healthVars, registryVars>>
OutsideUpdate == <<earlyVars, inboxVars, healthVars, registryVars>>
OutsideHealth == <<earlyVars, inboxVars, updateVars, registryVars>>
OutsideRegistry == <<earlyVars, inboxVars, updateVars, healthVars>>

None == "none"
NoCall == [called |-> FALSE]

(***************************************************************************)
(* Bounds of the model.                                                    *)
(***************************************************************************)
NegCredits == 3
MaxCredits == 53
MaxCmdLen == 4
MaxClock == 1
MaxMods == 2
MaxOps == 2
MaxInFlight == 1
MaxTaskErrors == 4
MaxTickErrors == 6
MaxForced == 1
MaxTransitions == 2
MaxKeys == 2
MaxDueTime == 3
MaxPoll == 2
MaxSigners == 2

(***************************************************************************)
(* Survival tier engine.                                                   *)
(***************************************************************************)
Tiers == {"normal", "low_compute", "critical", "dead"}

SURVIVAL_THRESHOLDS_Swapped ==
    [normal |-> 10, low_compute |-> 50, critical |-> 10, dead |-> 0]

SURVIVAL_THRESHOLDS ==
    [normal |-> 50, low_compute |-> 10, critical |-> 10, dead |-> 0]

\* agent-client/credits.ts: the tier of a balance in cents.
getSurvivalTier(creditsCents) ==
    IF creditsCents > SURVIVAL_THRESHOLDS.normal THEN "normal"
    ELSE IF creditsCents > SURVIVAL_THRESHOLDS.low_compute THEN "low_compute"
    ELSE IF creditsCents > SURVIVAL_THRESHOLDS.dead THEN "critical"
    ELSE "dead"

\* Severity order of the tiers: normal < low_compute < critical < dead.
Severity(t) ==
    CASE t = "normal" -> 0
      [] t = "low_compute" -> 1
      [] t = "critical" -> 2
      [] t = "dead" -> 3

CreditRange == (0 - NegCredits)..MaxCredits

\* tick(): const tier = getSurvivalTier(creditsCents)
EvaluateTier ==
    /\ tier = "unset"
    /\ tier' = getSurvivalTier(credits)
    /\ UNCHANGED <<credits, prevCredits, prevTier>>
    /\ UNCHANGED OutsideTier

\* another balance arrives; an evaluated one becomes the previous one
NewBalance ==
    /\ \E c \in CreditRange :
        /\ credits' = c
        /\ tier' = "unset"
        /\ IF tier = "unset"
             THEN UNCHANGED <<prevCredits, prevTier>>
             ELSE prevCredits' = credits /\ prevTier' = tier
    /\ UNCHANGED OutsideTier

Lit(s) == [k |-> "lit", set |-> {s}]
Alt(S) == [k |-> "alt", set |-> S]
Opt(S) == [k |-> "opt", set |-> S]
WsPlus == [k |-> "ws+", set |-> {}]
WsStar == [k |-> "ws*", set |-> {}]
AnyStar == [k |-> "any*", set |-> {}]
Re(elems) == [elems |-> elems, ci |-> FALSE]
ReI(elems) == [elems |-> elems, ci |-> TRUE]

FORBIDDEN_COMMAND_PATTERNS == <<
    \* critical file deletion
    Re(<<Lit("rm"), WsPlus, AnyStar, Lit(".sol-agent")>>),
    Re(<<Lit("rm"), WsPlus, AnyStar, Lit("state.db")>>),
    Re(<<Lit("rm"), WsPlus, AnyStar, Lit("wallet"), Lit(".json")>>),
    Re(<<Lit("rm"), WsPlus, AnyStar, Lit("agent"), Lit(".json")>>),
    Re(<<Lit("rm"), WsPlus, AnyStar, Lit("heartbeat.yml")>>),
    Re(<<Lit("rm"), WsPlus, AnyStar, Lit("SOUL.md")>>),
    Re(<<Lit("rm"), WsPlus, Lit("--"), WsPlus, AnyStar, Lit("wallet")>>),
    \* process termination
    Re(<<Lit("kill"), WsPlus, AnyStar, Lit("agent")>>),
    Re(<<Lit("p"), Lit("kill"), WsPlus, AnyStar, Lit("agent")>>),
    Re(<<Lit("kill"), Lit("all"), WsPlus, AnyStar, Lit("agent")>>),
    Re(<<Lit("systemctl"), WsPlus, Alt({"stop", "disable"}), WsPlus, Lit("agent")>>),
    Re(<<Lit("supervisorctl"), WsPlus, Alt({"stop", "restart"}), WsPlus, Lit("agent")>>),
    \* database destruction
    ReI(<<Lit("DROP"), WsPlus, Lit("TABLE")>>),
    ReI(<<Lit("DELETE"), WsPlus, Lit("FROM"), WsPlus,
          Alt({"turns", "identity", "kv", "schema_version", "skills",
               "children", "registry"})>>),
    ReI(<<Lit("TRUNCATE")>>),
    \* safety file tampering
    Re(<<Lit("sed"), WsPlus, AnyStar, Lit("injection-defense")>>),
    Re(<<Lit("sed"), WsPlus, AnyStar, Lit("self-mod/code")>>),
    Re(<<Lit("sed"), WsPlus, AnyStar, Lit("audit-log")>>),
    Re(<<Lit("awk"), WsPlus, AnyStar, Lit("injection-defense")>>),
    Re(<<Lit("awk"), WsPlus, AnyStar, Lit("self-mod/code")>>),
    \* redirect-overwrites of safety files
    Re(<<Lit(">"), WsStar, AnyStar, Lit("injection-defense")>>),
    Re(<<Lit(">"), WsStar, AnyStar, Lit("self-mod/code")>>),
    Re(<<Lit(">"), WsStar, AnyStar, Lit("audit-log")>>),
    Re(<<Lit(">"), WsStar, AnyStar, Lit("agent"), Lit("/tools")>>),
    Re(<<Lit(">"), WsStar, AnyStar, Lit("agent"), Lit("/loop")>>),
    \* credential exposure
    Re(<<Lit("cat"), WsPlus, AnyStar, Lit(".ssh")>>),
    Re(<<Lit("cat"), WsPlus, AnyStar, Lit(".gnupg")>>),
    Re(<<Lit("cat"), WsPlus, AnyStar, Lit(".env")>>),
    Re(<<Lit("cat"), WsPlus, AnyStar, Lit("wallet"), Lit(".json")>>),
    \* python / node file-deletion bypass attempts
    Re(<<Lit("python"), Opt({"2", "3"}), WsPlus, AnyStar, Lit("os."),
         Alt({"remove", "unlink", "rmdir", "rmtree"})>>),
    Re(<<Lit("node"), WsPlus, AnyStar, Lit("fs."),
         Alt({"unlink", "rmSync", "rmdirSync"})>>) >>

\* \s: blank, tab, newline
IsSpace(a) == a \in {" ", "\t", "\n"}
\* . : anything but a line terminator
IsDot(a) == a # "\n"

\* the upper-case form of an atom (the /i flag compares case-folded text)
CaseFold(a) ==
    CASE a = "drop" -> "DROP"
      [] a = "table" -> "TABLE"
      [] a = "delete" -> "DELETE"
      [] a = "from" -> "FROM"
      [] a = "truncate" -> "TRUNCATE"
      [] OTHER -> a

AtomEq(a, s, ci) == IF ci THEN CaseFold(a) = CaseFold(s) ELSE a = s

\* every atom of cmd[from..to] satisfies the class ("ws" or "any")
AllIn(cmd, from, to, class) ==
    \A j \in from..to : IF class = "ws" THEN IsSpace(cmd[j]) ELSE IsDot(cmd[j])

\* the elements i.. of re match a prefix of cmd[pos..]
RECURSIVE MatchAt(_, _, _, _)
MatchAt(re, i, cmd, pos) ==
    IF i > Len(re.elems) THEN TRUE
    ELSE LET e == re.elems[i]
             n == Len(cmd)
         IN CASE e.k = "lit" \/ e.k = "alt" ->
                    /\ pos <= n
                    /\ \E s \in e.set : AtomEq(cmd[pos], s, re.ci)
                    /\ MatchAt(re, i + 1, cmd, pos + 1)
              [] e.k = "opt" ->
                    \/ /\ pos <= n
                       /\ \E s \in e.set : AtomEq(cmd[pos], s, re.ci)
                       /\ MatchAt(re, i + 1, cmd, pos + 1)
                    \/ MatchAt(re, i + 1, cmd, pos)
              [] e.k = "ws+" ->
                    \E q \in (pos + 1)..(n + 1) :
                        AllIn(cmd, pos, q - 1, "ws") /\ MatchAt(re, i + 1, cmd, q)
              [] e.k = "ws*" ->
                    \E q \in pos..(n + 1) :
                        AllIn(cmd, pos, q - 1, "ws") /\ MatchAt(re, i + 1, cmd, q)
              [] e.k = "any*" ->
                    \E q \in pos..(n + 1) :
                        AllIn(cmd, pos, q - 1, "any") /\ MatchAt(re, i + 1, cmd, q)

\* RegExp.prototype.test of an unanchored pattern without the g flag
RegexTest(re, cmd) == \E pos \in 1..(Len(cmd) + 1) : MatchAt(re, 1, cmd, pos)

\* String.prototype.includes for one atom
Includes(cmd, a) == \E j \in 1..Len(cmd) : cmd[j] = a

NotForbidden == [blocked |-> FALSE]

\* the loop of isForbiddenCommand from pattern i on
RECURSIVE FirstPattern(_, _)
FirstPattern(command, i) ==
    IF i > Len(FORBIDDEN_COMMAND_PATTERNS) THEN 0
    ELSE IF RegexTest(FORBIDDEN_COMMAND_PATTERNS[i], command) THEN i
    ELSE FirstPattern(command, i + 1)

\* a guard that stops at the patterns and forgets the own-sandbox rule
isForbiddenCommand_NoSandboxRule(command, sandboxId) ==
    LET i == FirstPattern(command, 1)
    IN IF i # 0 THEN [blocked |-> TRUE, reason |-> "self-harm pattern", pattern |-> i]
       ELSE NotForbidden

isForbiddenCommand(command, sandboxId) ==
    LET i == FirstPattern(command, 1)
    IN IF i # 0
         THEN [blocked |-> TRUE, reason |-> "self-harm pattern", pattern |-> i]
       ELSE IF Includes(command, "sandbox_delete") /\ Includes(command, sandboxId)
         THEN [blocked |-> TRUE, reason |-> "own sandbox", pattern |-> 0]
       ELSE NotForbidden

\* ctx.identity.sandboxId
OwnSandboxId == "sbx-self"

CmdAlphabet ==
    {"rm", " ", "\n", "wallet", ".json", "truncate", "sandbox_delete", "sbx-self"}

RECURSIVE SeqsUpTo(_, _)
SeqsUpTo(S, n) ==
    IF n = 0 THEN {<<>>}
    ELSE LET shorter == SeqsUpTo(S, n - 1)
         IN shorter \cup {Append(c, a) : c \in {x \in shorter : Len(x) = n - 1}, a \in S}

Commands == SeqsUpTo(CmdAlphabet, MaxCmdLen)

\* args.timeout: absent, too small, in range, too large
RawTimeouts ==
    {[given |-> FALSE, ms |-> 0], [given |-> TRUE, ms |-> 500],
     [given |-> TRUE, ms |-> 60000], [given |-> TRUE, ms |-> 400000]}

\* exec.execute: the timeout handed on
ClampTimeout(rawTimeout) ==
    IF rawTimeout.given /\ rawTimeout.ms >= 1000
      THEN (IF rawTimeout.ms < 300000 THEN rawTimeout.ms ELSE 300000)
      ELSE 30000

\* exec.execute up to the await of agentClient.exec
ExecTool ==
    /\ execResult = None
    /\ \E command \in Commands, rawTimeout \in RawTimeouts :
        LET forbidden == isForbiddenCommand(command, OwnSandboxId)
        IN /\ execCommand' = command
           /\ IF forbidden.blocked
                THEN /\ execResult' = "Blocked"
                     /\ sandboxExec' = NoCall
                ELSE /\ sandboxExec' = [called |-> TRUE, command |-> command,
                                        timeout |-> ClampTimeout(rawTimeout)]
                     /\ execResult' = "pending"
    /\ UNCHANGED OutsideExec

\* agentClient.exec settles: an exit code, or a rejection
ExecSettle ==
    /\ execResult = "pending"
    /\ \E outcome \in {"exit0", "exit1", "throw"} : execResult' = outcome
    /\ UNCHANGED <<execCommand, sandboxExec>>
    /\ UNCHANGED OutsideExec

\* the tool call is over; the next one starts from scratch
ExecReturn ==
    /\ execResult \notin {None, "pending"}
    /\ execCommand' = <<>>
    /\ execResult' = None
    /\ sandboxExec' = NoCall
    /\ UNCHANGED OutsideExec

\* the ids createSandbox can answer with
ChildIds == {"sbx-a", "sbx-b", "sbx-c", "sbx-d"}

\* the ids a delete_sandbox call can name
SandboxIds == {OwnSandboxId} \cup ChildIds

\* create_sandbox.execute: createSandbox makes a sandbox with a fresh id, or
\* rejects
CreateSandboxTool ==
    /\ \E id \in ChildIds \ sandboxes, outcome \in {"ok", "throw"} :
        sandboxes' = IF outcome = "ok" THEN sandboxes \cup {id} ELSE sandboxes
    /\ UNCHANGED <<deleteCall, execVars, OutsideSandbox>>

NoDelete == [target |-> None, result |-> None, called |-> FALSE]

\* how agentClient.deleteSandbox settles
DeleteOutcomes == {"ok", "throw"}

\* a delete_sandbox without its test of the own id
DeleteSandboxTool_NoGuard ==
    /\ \E targetId \in SandboxIds, outcome \in DeleteOutcomes :
        /\ sandboxes' = IF outcome = "ok" THEN sandboxes \ {targetId} ELSE sandboxes
        /\ deleteCall' = [target |-> targetId, called |-> TRUE,
                          result |-> IF outcome = "ok" THEN "deleted" ELSE "throw"]
    /\ UNCHANGED <<execVars, OutsideSandbox>>

\* delete_sandbox.execute
DeleteSandboxTool ==
    /\ \E targetId \in SandboxIds, outcome \in DeleteOutcomes :
        IF targetId = OwnSandboxId
        THEN /\ deleteCall' = [target |-> targetId, called |-> FALSE, result |-> "Blocked"]
             /\ UNCHANGED sandboxes
        ELSE /\ sandboxes' = IF outcome = "ok" THEN sandboxes \ {targetId} ELSE sandboxes
             /\ deleteCall' = [target |-> targetId, called |-> TRUE,
                               result |-> IF outcome = "ok" THEN "deleted" ELSE "throw"]
    /\ UNCHANGED <<execVars, OutsideSandbox>>

\* C2: a command the exec tool hands to agentClient.exec matches no pattern
\* of the forbidden table and does not name sandbox_delete together with the
\* own sandbox id; a tool call whose command does is answered "Blocked" and
\* hands nothing to the sandbox.
C2_ExecGuard ==
    LET Matches(c) ==
            \/ \E i \in 1..Len(FORBIDDEN_COMMAND_PATTERNS) :
                   RegexTest(FORBIDDEN_COMMAND_PATTERNS[i], c)
            \/ (Includes(c, "sandbox_delete") /\ Includes(c, OwnSandboxId))
    IN /\ sandboxExec.called => ~Matches(sandboxExec.command)
       /\ (execResult # None /\ Matches(execCommand)) =>
              (execResult = "Blocked" /\ ~sandboxExec.called)

\* a call with a forbidden command ("rm wallet.json": pattern 3) was blocked
C2_Witness ==
    /\ execCommand = <<"rm", " ", "wallet", ".json">>
    /\ execResult = "Blocked"
    /\ ~sandboxExec.called

(***************************************************************************)
(* The wallet (identity/wallet).  A file is missing, or holds text that is *)
(* not JSON ("garbage"), JSON of the wrong structure ("badshape"), 64      *)
(* bytes that are no keypair ("badkey"), or the secret key of a keypair    *)
(* ("key"); keypairs are numbered in the order they are generated.         *)
(***************************************************************************)
MissingFile == [kind |-> "missing", key |-> 0]

KeyFile(k) == [kind |-> "key", key |-> k]

\* what damage can leave of a file that exists
Damages == {"missing", "garbage", "badshape", "badkey"}

NoWalletCall ==
    [op |-> None, outcome |-> None, key |-> 0, isNew |-> FALSE, source |-> None,
     exists |-> FALSE]

\* fs.existsSync
existsSync(file) == file.kind # "missing"

\* parseWalletFile returns (does not throw): the file is read, is JSON and
\* passes validateWalletData
parseWalletFile(file) == file.kind \in {"key", "badkey"}

\* a loadWalletData that takes unreadable files for no wallet at all
loadWalletData_NullOnCorrupt(primary, backup) ==
    IF existsSync(primary) /\ parseWalletFile(primary)
    THEN [result |-> "data", data |-> primary, primary |-> primary, source |-> "primary"]
    ELSE IF existsSync(backup) /\ parseWalletFile(backup)
    THEN [result |-> "data", data |-> backup, primary |-> backup, source |-> "backup"]
    ELSE [result |-> "null", data |-> MissingFile, primary |-> primary, source |-> None]

\* a loadWalletData that reads the backup without restoring the primary
loadWalletData_NoRestore(primary, backup) ==
    IF ~existsSync(primary) /\ ~existsSync(backup)
    THEN [result |-> "null", data |-> MissingFile, primary |-> primary, source |-> None]
    ELSE IF existsSync(primary) /\ parseWalletFile(primary)
    THEN [result |-> "data", data |-> primary, primary |-> primary, source |-> "primary"]
    ELSE IF existsSync(backup) /\ parseWalletFile(backup)
    THEN [result |-> "data", data |-> backup, primary |-> primary, source |-> "backup"]
    ELSE [result |-> "throw", data |-> MissingFile, primary |-> primary, source |-> None]

\* loadWalletData(): null, the data of a file, or a throw; and what the
\* primary file holds afterwards
loadWalletData(primary, backup) ==
    IF ~existsSync(primary) /\ ~existsSync(backup)
    THEN [result |-> "null", data |-> MissingFile, primary |-> primary, source |-> None]
    ELSE IF existsSync(primary) /\ parseWalletFile(primary)
    THEN [result |-> "data", data |-> primary, primary |-> primary, source |-> "primary"]
    ELSE IF existsSync(backup) /\ parseWalletFile(backup)
    THEN [result |-> "data", data |-> backup, primary |-> backup, source |-> "backup"]
    ELSE [result |-> "throw", data |-> MissingFile, primary |-> primary, source |-> None]

\* Keypair.fromSecretKey returns (does not throw)
fromSecretKey(data) == data.kind = "key"

\* getWallet()
GetWallet ==
    LET existing == loadWalletData(walletFile, walletBackup)
    IN /\ CASE existing.result = "throw" ->
                  /\ walletCall' = [NoWalletCall EXCEPT !.op = "getWallet",
                                                        !.outcome = "throw"]
                  /\ UNCHANGED <<walletFile, walletBackup, keysGenerated>>
            [] existing.result = "data" ->
                  /\ walletFile' = existing.primary
                  /\ walletCall' =
                        IF fromSecretKey(existing.data)
                        THEN [op |-> "getWallet", outcome |-> "ok",
                              key |-> existing.data.key, isNew |-> FALSE,
                              source |-> existing.source, exists |-> FALSE]
                        ELSE [NoWalletCall EXCEPT !.op = "getWallet", !.outcome = "throw",
                                                  !.source = existing.source]
                  /\ UNCHANGED <<walletBackup, keysGenerated>>
            [] existing.result = "null" ->
                  /\ keysGenerated < MaxKeys
                  /\ keysGenerated' = keysGenerated + 1
                  /\ walletFile' = KeyFile(keysGenerated + 1)
                  /\ walletBackup' = KeyFile(keysGenerated + 1)
                  /\ walletCall' = [op |-> "getWallet", outcome |-> "ok",
                                    key |-> keysGenerated + 1, isNew |-> TRUE,
                                    source |-> "generated", exists |-> FALSE]
       /\ UNCHANGED OutsideWallet

\* walletExists()
walletExists(primary, backup) == existsSync(primary) \/ existsSync(backup)

\* one call of walletExists
WalletExists ==
    /\ walletCall' = [NoWalletCall EXCEPT !.op = "walletExists", !.outcome = "ok",
                                          !.exists = walletExists(walletFile, walletBackup)]
    /\ UNCHANGED <<walletFile, walletBackup, keysGenerated, OutsideWallet>>

\* the environment damages or removes a wallet file that exists; what the
\* call before it returned no longer describes the files
DamageWallet ==
    /\ \E damage \in Damages :
        \/ /\ existsSync(walletFile)
           /\ walletFile' = [kind |-> damage, key |-> 0]
           /\ UNCHANGED walletBackup
        \/ /\ existsSync(walletBackup)
           /\ walletBackup' = [kind |-> damage, key |-> 0]
           /\ UNCHANGED walletFile
    /\ walletCall' = NoWalletCall
    /\ UNCHANGED <<keysGenerated, OutsideWallet>>

(***************************************************************************)
(* The check_social_inbox task (heartbeat/tasks).                          *)
(***************************************************************************)
MsgIds == {"m1", "m2", "m3"}

\* the cursors a poll can hand back, "" for none
Cursors == {"", "c1", "c2"}

\* what ctx.social.poll(cursor) can resolve to: messages, repeated ones
\* included, and a cursor
PollResults ==
    {[messages |-> m, nextCursor |-> c] : m \in SeqsUpTo(MsgIds, MaxPoll), c \in Cursors}

NoPoll ==
    [outcome |-> None, messages |-> <<>>, newCount |-> 0, shouldWake |-> FALSE]

\* a loop that inserts a message without recording its id
RECURSIVE processMessages_NoMark(_, _, _, _)
processMessages_NoMark(messages, seen, box, newCount) ==
    IF messages = <<>> THEN [seen |-> seen, inbox |-> box, newCount |-> newCount]
    ELSE LET id == Head(messages)
         IN IF id \in seen
            THEN processMessages_NoMark(Tail(messages), seen, box, newCount)
            ELSE processMessages_NoMark(Tail(messages), seen,
                                        [box EXCEPT ![id] = @ + 1], newCount + 1)

\* check_social_inbox: for (const msg of messages), a message whose id has
\* no inbox_seen key is inserted, its key is set, and it is counted
RECURSIVE processMessages(_, _, _, _)
processMessages(messages, seen, box, newCount) ==
    IF messages = <<>> THEN [seen |-> seen, inbox |-> box, newCount |-> newCount]
    ELSE LET id == Head(messages)
         IN IF id \in seen
            THEN processMessages(Tail(messages), seen, box, newCount)
            ELSE processMessages(Tail(messages), seen \cup {id},
                                 [box EXCEPT ![id] = @ + 1], newCount + 1)

\* BUILTIN_TASKS.check_social_inbox with a social client: the poll rejects,
\* or resolves and the messages are gone through
CheckSocialInbox ==
    /\ \/ /\ inboxPoll' = [NoPoll EXCEPT !.outcome = "throw"]
          /\ UNCHANGED <<inbox, inbox_seen, social_inbox_cursor>>
       \/ \E polled \in PollResults :
             IF Len(polled.messages) = 0
             THEN /\ inboxPoll' = [NoPoll EXCEPT !.outcome = "ok"]
                  /\ UNCHANGED <<inbox, inbox_seen, social_inbox_cursor>>
             ELSE LET done == processMessages(polled.messages, inbox_seen, inbox, 0)
                  IN /\ inbox' = done.inbox
                     /\ inbox_seen' = done.seen
                     /\ social_inbox_cursor' =
                           IF polled.nextCursor # "" THEN polled.nextCursor
                           ELSE social_inbox_cursor
                     /\ inboxPoll' = [outcome |-> "ok", messages |-> polled.messages,
                                      newCount |-> done.newCount,
                                      shouldWake |-> done.newCount # 0]
    /\ UNCHANGED OutsideInbox

(***************************************************************************)
(* The audit log (self-mod/audit-log) over the modifications table.        *)
(***************************************************************************)
\* time passes
Tick ==
    /\ clock < MaxClock
    /\ clock' = clock + 1
    /\ UNCHANGED <<mods, ulidCount, auditReturn, fileVars, selfModVars, OutsideTools>>

\* ulid(): the time of the call followed by randomness no other call draws
ulid(now, drawn) == [time |-> now, rand |-> drawn + 1]

\* db.insertModification: one more row
insertModification(table, entry) == Append(table, entry)

\* db.getRecentModifications(limit): the latest `limit` rows, oldest first
dbGetRecentModifications(table, limit) ==
    IF Len(table) <= limit THEN table
    ELSE SubSeq(table, Len(table) - limit + 1, Len(table))

NoOptions == [filePath |-> None, diff |-> None, reversible |-> "undefined"]

\* logModification that overwrites the latest row instead of appending
logModification_Overwrite(table, now, drawn, type, description, options) ==
    LET entry == [id |-> ulid(now, drawn), timestamp |-> now, type |-> type,
                  description |-> description, filePath |-> options.filePath,
                  diff |-> options.diff,
                  reversible |-> options.reversible # "false"]
    IN IF table = <<>> THEN <<entry>>
       ELSE [table EXCEPT ![Len(table)] = entry]

\* logModification: the table after the call (the entry is its last row)
logModification(table, now, drawn, type, description, options) ==
    LET entry == [id |-> ulid(now, drawn), timestamp |-> now, type |-> type,
                  description |-> description, filePath |-> options.filePath,
                  diff |-> options.diff,
                  reversible |-> options.reversible # "false"]
    IN insertModification(table, entry)

ModificationTypes ==
    {"code_edit", "tool_install", "heartbeat_change", "prompt_change", "upstream_pull"}

\* the arguments the audit module is called with here
LogTypes == {"code_edit", "prompt_change"}
LogOptions ==
    {NoOptions, [filePath |-> "src/skills/helper.ts", diff |-> "diff", reversible |-> "false"]}

\* a call of logModification(db, type, description, options)
LogModification ==
    /\ Len(mods) < MaxMods
    /\ \E type \in LogTypes, options \in LogOptions :
        LET table == logModification(mods, clock, ulidCount, type, "described", options)
        IN /\ mods' = table
           /\ auditReturn' = [op |-> "logModification", entry |-> table[Len(table)]]
    /\ ulidCount' = ulidCount + 1
    /\ UNCHANGED <<clock, OutsideAudit>>

\* getRecentModifications(db, limit), limit defaulting to 20
GetRecentModifications ==
    /\ \E limit \in {1, 20} :
        auditReturn' = [op |-> "getRecentModifications", limit |-> limit,
                        rows |-> dbGetRecentModifications(mods, limit)]
    /\ UNCHANGED <<auditVars, OutsideAudit>>

\* generateAuditReport(db): one line per row of the latest 100
GenerateAuditReport ==
    /\ LET rows == dbGetRecentModifications(mods, 100)
       IN auditReturn' =
            [op |-> "generateAuditReport",
             total |-> Len(rows),
             lines |-> [i \in 1..Len(rows) |->
                          <<rows[i].timestamp, rows[i].type, rows[i].description,
                            rows[i].filePath>>]]
    /\ UNCHANGED <<auditVars, OutsideAudit>>

\* C4: the audit log is append-only: a step of the audit module keeps every
\* row already in the table, in place and with every field unchanged, and
\* the ids of the rows are pairwise different.
C4_AppendOnly ==
    [][/\ Len(mods') >= Len(mods)
       /\ \A i \in 1..Len(mods) : mods'[i] = mods[i]
       /\ \A i, j \in 1..Len(mods') : mods'[i].id = mods'[j].id => i = j]_vars

\* two entries were logged at the same instant and a bounded read returned
\* the later one only, the earlier one still being in the table
C4_Witness ==
    /\ Len(mods) = 2
    /\ mods[1].timestamp = mods[2].timestamp
    /\ auditReturn.op = "getRecentModifications"
    /\ auditReturn.limit = 1
    /\ auditReturn.rows = <<mods[2]>>

(***************************************************************************)
(* The modification guard (self-mod/code) and the two file tools.          *)
(***************************************************************************)
\* a path is the sequence of its segments
WalletPath == <<"~", ".sol-agent", "wallet.json">>
GuardPath == <<"src", "self-mod", "code.ts">>
HelperPath == <<"src", "skills", "helper.ts">>
Paths == {WalletPath, GuardPath, HelperPath}

\* the static protected set: a path is protected when it ends with an entry
ProtectedFileSet ==
    {<<"wallet.json">>, <<"state.db">>, <<"self-mod", "code.ts">>,
     <<"self-mod", "audit-log.ts">>, <<"agent", "tools.ts">>}

EndsWith(path, suffix) ==
    /\ Len(suffix) <= Len(path)
    /\ SubSeq(path, Len(path) - Len(suffix) + 1, Len(path)) = suffix

isProtectedFile(filePath) == \E pat \in ProtectedFileSet : EndsWith(filePath, pat)

\* contents: the text and its length in bytes
MAX_FILE_SIZE == 100000
EmptyContent == [text |-> "", length |-> 0]
ContentA == [text |-> "A", length |-> 10]
ContentB == [text |-> "B", length |-> 10]
HugeContent == [text |-> "H", length |-> 100001]
Contents == {EmptyContent, ContentA, ContentB, HugeContent}
OriginalContent == [text |-> "original", length |-> 8]

\* the rate limit: at most RATE_LIMIT_CAP modifications in the trailing
\* RATE_LIMIT_WINDOW time units
RATE_LIMIT_CAP == 2
RATE_LIMIT_WINDOW == 1

RecentCount(table, now) ==
    Cardinality({i \in 1..Len(table) : table[i].timestamp > now - RATE_LIMIT_WINDOW})

\* validateModification(db, path, size): every check is reported
validateModification(table, now, filePath, size) ==
    LET checks == <<
            [name |-> "protected_file", passed |-> ~isProtectedFile(filePath)],
            [name |-> "size", passed |-> size > 0 /\ size <= MAX_FILE_SIZE],
            [name |-> "rate_limit", passed |-> RecentCount(table, now) < RATE_LIMIT_CAP] >>
        failed == {i \in 1..Len(checks) : ~checks[i].passed}
    IN [allowed |-> failed = {},
        checks |-> checks,
        reason |-> IF failed = {} THEN None
                   ELSE checks[CHOOSE i \in failed : \A j \in failed : i <= j].name]

WriteOutcomes == {"ok", "throw"}

\* agentClient.writeFile(path, content) with the given outcome
SandboxWriteFile(path, content, outcome) ==
    /\ sandboxWrite' = [called |-> TRUE, path |-> path, content |-> content]
    /\ files' = IF outcome = "ok" THEN [files EXCEPT ![path] = content] ELSE files

\* write_file without its protected-file test
WriteFileTool_NoGuard ==
    \E filePath \in Paths, content \in Contents, outcome \in WriteOutcomes :
        /\ SandboxWriteFile(filePath, content, outcome)
        /\ fileCall' = [tool |-> "write_file", path |-> filePath,
                        size |-> content.length,
                        result |-> IF outcome = "ok" THEN "File written" ELSE "throw"]
        /\ UNCHANGED <<auditVars, OutsideFiles>>

\* write_file.execute
WriteFileTool ==
    \E filePath \in Paths, content \in Contents, outcome \in WriteOutcomes :
        /\ IF isProtectedFile(filePath)
             THEN /\ fileCall' = [tool |-> "write_file", path |-> filePath,
                                  size |-> content.length, result |-> "Blocked"]
                  /\ sandboxWrite' = NoCall
                  /\ UNCHANGED files
             ELSE /\ SandboxWriteFile(filePath, content, outcome)
                  /\ fileCall' = [tool |-> "write_file", path |-> filePath,
                                  size |-> content.length,
                                  result |-> IF outcome = "ok" THEN "File written"
                                             ELSE "throw"]
        /\ UNCHANGED <<auditVars, OutsideFiles>>

\* editFile(agentClient, db, path, content, description): the write, then the
\* audit entry whatever the write did
EditFile(filePath, content, outcome) ==
    /\ SandboxWriteFile(filePath, content, outcome)
    /\ mods' = logModification(mods, clock, ulidCount, "code_edit",
                               IF outcome = "ok" THEN "edit" ELSE "edit (write failed)",
                               [filePath |-> filePath, diff |-> "diff",
                                reversible |-> "true"])
    /\ ulidCount' = ulidCount + 1
    /\ UNCHANGED clock

\* validation.checks.map((c) => `${c.name}: ${c.passed ? "PASS" : "FAIL"} (...)`)
ChecksText(checks) ==
    [i \in 1..Len(checks) |->
        [name |-> checks[i].name,
         verdict |-> IF checks[i].passed THEN "PASS" ELSE "FAIL"]]

\* an edit_own_file that goes to editFile without looking at the validation
EditOwnFileTool_NoValidation ==
    \E filePath \in Paths, content \in Contents, outcome \in WriteOutcomes :
        /\ UNCHANGED OutsideFiles
        /\ EditFile(filePath, content, outcome)
        /\ fileCall' = [tool |-> "edit_own_file", path |-> filePath,
                        size |-> content.length,
                        result |-> IF outcome = "ok" THEN "File edited" ELSE "error"]

\* edit_own_file.execute
EditOwnFileTool ==
    \E filePath \in Paths, content \in Contents, outcome \in WriteOutcomes :
        LET validation == validateModification(mods, clock, filePath, content.length)
        IN /\ UNCHANGED OutsideFiles
           /\ IF ~validation.allowed
                THEN /\ fileCall' = [tool |-> "edit_own_file", path |-> filePath,
                                     size |-> content.length, result |-> "BLOCKED",
                                     reason |-> validation.reason,
                                     checks |-> ChecksText(validation.checks)]
                     /\ sandboxWrite' = NoCall
                     /\ UNCHANGED <<files, auditVars>>
                ELSE /\ EditFile(filePath, content, outcome)
                     /\ fileCall' = [tool |-> "edit_own_file", path |-> filePath,
                                     size |-> content.length,
                                     result |-> IF outcome = "ok" THEN "File edited"
                                                ELSE "error"]

\* C1: for every protected path and every content, validateModification
\* answers allowed = FALSE with the protected-path check failed, whatever the
\* size and the rate-limit state; a write_file or edit_own_file call on a
\* protected path is answered blocked and writes nothing, so no protected
\* file ever changes.
C1_ProtectedContentBlind ==
    LET Protected == {p \in Paths : isProtectedFile(p)}
    IN /\ \A p \in Protected : \A c \in Contents :
            LET v == validateModification(mods, clock, p, c.length)
            IN /\ ~v.allowed
               /\ \E i \in 1..Len(v.checks) :
                      v.checks[i].name = "protected_file" /\ ~v.checks[i].passed
       /\ (fileCall.tool # None /\ fileCall.path \in Protected) =>
              /\ fileCall.result \in {"Blocked", "BLOCKED"}
              /\ ~sandboxWrite.called
       /\ sandboxWrite.called => sandboxWrite.path \notin Protected
       /\ \A p \in Protected : files[p] = OriginalContent

\* edit_own_file was refused on a protected path with a content of valid
\* size, while the same content had been written to an unprotected file
C1_Witness ==
    /\ fileCall.tool = "edit_own_file"
    /\ fileCall.path = GuardPath
    /\ fileCall.size = ContentA.length
    /\ fileCall.result = "BLOCKED"
    /\ files[HelperPath] = ContentA
    /\ Len(mods) = 1

(***************************************************************************)
(* The self-modification tools (agent/tool-defs/self-mod).                 *)
(***************************************************************************)
NullTime == 0 - 1

HbNames == {"check_credits", "heartbeat_ping", "custom_task", "check_for_updates"}

\* the rows the configuration load has put into the table
InitialEntries ==
    [n \in HbNames |->
        [present |-> TRUE,
         schedule |-> IF n = "check_for_updates" THEN "0 * * * *" ELSE "*/30 * * * *",
         task |-> n, enabled |-> n # "check_credits", lastRun |-> NullTime]]

\* db.upsertHeartbeatEntry(entry): the row of that name is replaced
upsertHeartbeatEntry(table, name, schedule, task, enabled) ==
    [table EXCEPT ![name] = [present |-> TRUE, schedule |-> schedule, task |-> task,
                             enabled |-> enabled, lastRun |-> NullTime]]

\* ctx.db.insertModification({id: ulid(), timestamp, type, description, reversible: true})
ToolInsertModification(type, description, diff) ==
    /\ mods' = insertModification(mods,
                  [id |-> ulid(clock, ulidCount), timestamp |-> clock, type |-> type,
                   description |-> description, filePath |-> None, diff |-> diff,
                   reversible |-> TRUE])
    /\ ulidCount' = ulidCount + 1

\* install_npm_package.execute
InstallNpmPackage ==
    /\ selfModOps < MaxOps
    /\ \E pkg \in {"axios"}, outcome \in {"exit0", "exit1", "throw"} :
        IF outcome = "throw"
          THEN /\ selfModCall' = [tool |-> "install_npm_package", result |-> "throw"]
               /\ UNCHANGED <<mods, ulidCount, selfModOps>>
          ELSE /\ selfModOps' = selfModOps + 1
               /\ ToolInsertModification("tool_install", <<"Installed npm package", pkg>>, None)
               /\ selfModCall' = [tool |-> "install_npm_package",
                                  result |-> IF outcome = "exit0" THEN "Installed"
                                             ELSE "Failed to install"]
    /\ UNCHANGED <<clock, hbEntries, genesisPrompt, OutsideSelfMod>>

\* pull_upstream.execute
PullUpstream ==
    /\ selfModOps < MaxOps
    /\ \E commit \in {None, "abc123"}, git \in {"ok", "fail"}, build \in {"ok", "fail"} :
        LET appliedSummary == IF commit # None THEN <<"Cherry-picked", commit>>
                              ELSE <<"Pulled all of origin/main", None>>
        IN IF git = "fail"
             THEN /\ selfModCall' = [tool |-> "pull_upstream",
                                     result |-> "Git operation failed"]
                  /\ UNCHANGED <<mods, ulidCount, selfModOps>>
           ELSE IF build = "fail"
             THEN /\ selfModOps' = selfModOps + 1
                  /\ selfModCall' = [tool |-> "pull_upstream",
                                     result |-> "but rebuild failed"]
                  /\ UNCHANGED <<mods, ulidCount>>
           ELSE /\ selfModOps' = selfModOps + 1
                /\ ToolInsertModification("upstream_pull", appliedSummary, None)
                /\ selfModCall' = [tool |-> "pull_upstream",
                                   result |-> "Rebuild succeeded"]
    /\ UNCHANGED <<clock, hbEntries, genesisPrompt, OutsideSelfMod>>

\* the arguments of modify_heartbeat: "" stands for an absent string
HbActions == {"add", "update", "remove"}
HbScheduleArgs == {"", "*/30 * * * *"}
HbEnabledArgs == {"undefined", "false"}

\* modify_heartbeat.execute, for calls with arguments of the given sets; ""
\* stands for an argument left out
ModifyHeartbeatWith(actions, names, schedules, tasks, enabledArgs) ==
    /\ selfModOps < MaxOps
    /\ selfModOps' = selfModOps + 1
    /\ \E action \in actions, name \in names, schedule \in schedules,
          task \in tasks, enabled \in enabledArgs :
        IF action = "remove"
          THEN /\ hbEntries' = upsertHeartbeatEntry(hbEntries, name, "", "", FALSE)
               /\ selfModCall' = [tool |-> "modify_heartbeat", result |-> "disabled"]
               /\ UNCHANGED <<mods, ulidCount>>
          ELSE /\ hbEntries' = upsertHeartbeatEntry(hbEntries, name,
                                  IF schedule # "" THEN schedule ELSE "0 * * * *",
                                  IF task # "" THEN task ELSE name, enabled # "false")
               /\ ToolInsertModification("heartbeat_change",
                      <<action, name, IF schedule # "" THEN schedule ELSE "default">>, None)
               /\ selfModCall' = [tool |-> "modify_heartbeat", result |-> action]
    /\ UNCHANGED <<clock, genesisPrompt, OutsideSelfMod>>

\* modify_heartbeat.execute called without a task argument
ModifyHeartbeat ==
    ModifyHeartbeatWith(HbActions, HbNames, HbScheduleArgs, {""}, HbEnabledArgs)

\* update_genesis_prompt.execute; saveConfig may throw
UpdateGenesisPrompt ==
    /\ selfModOps < MaxOps
    /\ \E new_prompt \in {"genesis", "rewritten"}, save \in {"ok", "throw"} :
        /\ genesisPrompt' = new_prompt
        /\ IF save = "throw"
             THEN /\ selfModCall' = [tool |-> "update_genesis_prompt", result |-> "throw"]
                  /\ UNCHANGED <<mods, ulidCount, selfModOps>>
             ELSE /\ selfModOps' = selfModOps + 1
                  /\ ToolInsertModification("prompt_change", <<"Genesis prompt updated">>,
                                            <<genesisPrompt, new_prompt>>)
                  /\ selfModCall' = [tool |-> "update_genesis_prompt",
                                     result |-> "Genesis prompt updated"]
    /\ UNCHANGED <<clock, hbEntries, OutsideSelfMod>>

\* C3: every self-modification carried out through the tools (a heartbeat
\* add / update / remove, an npm install that ran, an upstream pull that was
\* applied, a saved genesis-prompt change) has appended exactly one entry to
\* the audit log, whether what followed it succeeded or failed.
C3_EveryModificationAudited == Len(mods) = selfModOps

(***************************************************************************)
(* The check_for_updates task (heartbeat/tasks).                           *)
(***************************************************************************)
\* what checkUpstream() / getRepoInfo() can do: return the number of commits
\* behind with or without a fetchError ("" for none), or throw an error with
\* a message
UpstreamResults ==
    {[threw |-> FALSE, behind |-> b, error |-> e] :
        b \in {0, 1, 2, 5}, e \in {"", "E1", "E2", "E3"}}
    \cup {[threw |-> TRUE, behind |-> 0, error |-> e] : e \in {"E1", "G1", "G2"}}

NoStatus == [behind |-> 0, error |-> None, checkedAt |-> NullTime]

NoUpdateCheck == [outcome |-> None, error |-> "", behind |-> 0, shouldWake |-> FALSE]

\* ctx.db.getKV("upstream_fetch_error") ?? ""
prevFetchError(stored) == IF stored = None THEN "" ELSE stored

\* a check that wakes on every error
fetchErrorWakes_Always(error, prev) == TRUE

\* upstream.fetchError !== prevFetchError, errorMsg !== prevError
fetchErrorWakes(error, prev) == error # prev

\* BUILTIN_TASKS.check_for_updates
CheckForUpdates ==
    /\ \E upstream \in UpstreamResults :
        /\ upstream_status' = [behind |-> upstream.behind, error |-> upstream.error,
                               checkedAt |-> clock]
        /\ upstream_fetch_error' = upstream.error
        /\ updateCheck' =
              [outcome |-> IF upstream.threw THEN "threw"
                           ELSE IF upstream.error # "" THEN "fetchError" ELSE "ok",
               error |-> upstream.error,
               behind |-> upstream.behind,
               shouldWake |->
                   IF upstream.threw \/ upstream.error # ""
                   THEN fetchErrorWakes(upstream.error,
                                        prevFetchError(upstream_fetch_error))
                   ELSE upstream.behind > 0]
    /\ UNCHANGED OutsideUpdate

(***************************************************************************)
(* The health_check task (heartbeat/tasks).                                *)
(***************************************************************************)
\* what ctx.agentClient.exec("echo alive", 5000) can do: reject, or resolve
\* with an exit code
HealthExecResults ==
    {[threw |-> TRUE, exitCode |-> 0]}
    \cup {[threw |-> FALSE, exitCode |-> code] : code \in {0, 1, 127}}

NoHealthCheck == [outcome |-> None, exitCode |-> 0, shouldWake |-> FALSE]

\* a check that takes every exit code for alive
healthFailed_ThrowOnly(result) == result.threw

\* health_check: exec threw, or result.exitCode !== 0
healthFailed(result) == result.threw \/ result.exitCode # 0

\* BUILTIN_TASKS.health_check
HealthCheck ==
    /\ \E result \in HealthExecResults :
        /\ healthCheck' = [outcome |-> IF result.threw THEN "threw" ELSE "exit",
                           exitCode |-> result.exitCode,
                           shouldWake |-> healthFailed(result)]
        /\ last_health_check' = IF healthFailed(result) THEN last_health_check ELSE clock
    /\ UNCHANGED OutsideHealth

(***************************************************************************)
(* registerAgent (registry/solana).  An asset address is the number of the *)
(* generateSigner() call that made it.                                     *)
(***************************************************************************)
REGISTRY_MAX_ATTEMPTS == 3

\* reg: pc is where the call is ("mint": awaiting createV1().sendAndConfirm,
\* "fetch": awaiting fetchAsset, "sleep": awaiting the backoff, "returned",
\* "thrown"); attempt, asset and lastErr are its locals; targets are the
\* addresses its createV1 calls have named, minted the assets its
\* transactions have created, stored its setRegistryEntry calls
NoRegistration ==
    [pc |-> "idle", attempt |-> 0, asset |-> 0, lastErr |-> None, targets |-> {},
     minted |-> 0, stored |-> 0, thrown |-> None]

\* a loop with one attempt more
loopGoesOn_OneMore(attempt) == attempt <= REGISTRY_MAX_ATTEMPTS + 1

\* for (...; attempt <= REGISTRY_MAX_ATTEMPTS; ...)
loopGoesOn(attempt) == attempt <= REGISTRY_MAX_ATTEMPTS

\* if (attempt < REGISTRY_MAX_ATTEMPTS) { await sleep(delayMs) }
mayRetry(attempt) == attempt < REGISTRY_MAX_ATTEMPTS

\* attempt++ and the loop test: createV1 is sent again for the same signer,
\* or the loop ends and lastErr is thrown
nextAttempt(r) ==
    IF loopGoesOn(r.attempt + 1)
    THEN [r EXCEPT !.pc = "mint", !.attempt = @ + 1, !.targets = @ \cup {r.asset}]
    ELSE [r EXCEPT !.pc = "thrown", !.thrown = r.lastErr]

\* the end of a failed attempt: the backoff, or the next turn of the loop
\* at once
afterFailure(r, err) ==
    IF mayRetry(r.attempt)
    THEN [r EXCEPT !.pc = "sleep", !.lastErr = err]
    ELSE nextAttempt([r EXCEPT !.lastErr = err])

\* registerAgent() up to its first await: the signer is generated, the
\* first createV1 is sent
RegisterAgent ==
    /\ reg.pc \in {"idle", "returned", "thrown"}
    /\ signers < MaxSigners
    /\ signers' = signers + 1
    /\ reg' = [NoRegistration EXCEPT !.pc = "mint", !.attempt = 1, !.asset = signers + 1,
                                     !.targets = {signers + 1}]
    /\ UNCHANGED <<chainAssets, registryEntries, OutsideRegistry>>

\* createV1(...).sendAndConfirm settles: the chain refuses an address that
\* is in use; otherwise the transaction is confirmed, or lands while its
\* confirmation times out, or fails
MintSettle ==
    /\ reg.pc = "mint"
    /\ IF reg.asset \in chainAssets
       THEN /\ \/ reg' = [reg EXCEPT !.pc = "fetch", !.lastErr = "already in use"]
               \/ reg' = afterFailure(reg, "rpc error")
            /\ UNCHANGED <<chainAssets, registryEntries>>
       ELSE \/ /\ chainAssets' = chainAssets \cup {reg.asset}
               /\ registryEntries' =
                     Append(registryEntries, [agentId |-> reg.asset, txSignature |-> "signature"])
               /\ reg' = [reg EXCEPT !.pc = "returned", !.minted = @ + 1, !.stored = @ + 1]
            \/ /\ chainAssets' = chainAssets \cup {reg.asset}
               /\ reg' = afterFailure([reg EXCEPT !.minted = @ + 1], "confirmation timed out")
               /\ UNCHANGED registryEntries
            \/ /\ reg' = afterFailure(reg, "rpc error")
               /\ UNCHANGED <<chainAssets, registryEntries>>
    /\ UNCHANGED <<signers, OutsideRegistry>>

\* fetchAsset settles after an "already exists" error: the entry is
\* recovered, or the fetch fails and the attempt ends as a failed one
FetchSettle ==
    /\ reg.pc = "fetch"
    /\ \/ /\ registryEntries' =
                Append(registryEntries, [agentId |-> reg.asset, txSignature |-> "recovered"])
          /\ reg' = [reg EXCEPT !.pc = "returned", !.stored = @ + 1]
       \/ /\ reg' = afterFailure(reg, "fetch failed")
          /\ UNCHANGED registryEntries
    /\ UNCHANGED <<chainAssets, signers, OutsideRegistry>>

\* the backoff is over: the loop goes into its next turn
SleepDone ==
    /\ reg.pc = "sleep"
    /\ reg' = nextAttempt(reg)
    /\ UNCHANGED <<chainAssets, registryEntries, signers, OutsideRegistry>>

(***************************************************************************)
(* The heartbeat daemon (heartbeat/daemon).  Time is counted in units of   *)
(* 30 minutes; a tick() call is a record that lives from its first await   *)
(* to its return.                                                          *)
(***************************************************************************)
MAX_CONSECUTIVE_TICK_ERRORS == 5

MAX_CONSECUTIVE_TASK_ERRORS == 3

\* the keys of BUILTIN_TASKS
BUILTIN_TASKS ==
    {"heartbeat_ping", "check_credits", "check_usdc_balance", "check_sol_balance",
     "check_social_inbox", "check_for_updates", "health_check"}

\* the allow-list with the update check added to it
essentialTasks_WithUpdates ==
    {"heartbeat_ping", "check_credits", "check_usdc_balance", "check_social_inbox",
     "check_for_updates"}

essentialTasks ==
    {"heartbeat_ping", "check_credits", "check_usdc_balance", "check_social_inbox"}

\* daemonOp: the operation, the entry it ran, how the awaited call settled,
\* the balance and tier of the tick, and the error count before the step (the
\* entry's for a task, consecutiveTickErrors for a balance query)
DaemonOp(op, name, outcome, cents, tr, prior) ==
    [op |-> op, name |-> name, outcome |-> outcome, cents |-> cents, tier |-> tr,
     prior |-> prior]

NoOp == DaemonOp(None, None, None, 0, None, 0)

\* the order in which db.getHeartbeatEntries() returns the rows
HbOrder == <<"check_credits", "heartbeat_ping", "custom_task", "check_for_updates">>

EntryOf(table, n) ==
    [name |-> n, schedule |-> table[n].schedule, task |-> table[n].task,
     enabled |-> table[n].enabled, lastRun |-> table[n].lastRun]

\* db.getHeartbeatEntries(): the rows of the table, as values
getHeartbeatEntries(table) ==
    LET present == SelectSeq(HbOrder, LAMBDA n : table[n].present)
    IN [i \in 1..Len(present) |-> EntryOf(table, present[i])]

\* db.updateHeartbeatLastRun(name, now)
updateHeartbeatLastRun(table, name, now) ==
    [table EXCEPT ![name] = [@ EXCEPT !.lastRun = now]]

\* 86400000 ms
DayUnits == 48

\* one week
WeekUnits == 7 * DayUnits

\* the period of a cron expression in time units, 0 if it does not parse
CronPeriod(schedule) ==
    IF schedule = "*/30 * * * *" THEN 1
    ELSE IF schedule = "0 * * * *" THEN 2
    ELSE IF schedule = "0 0 * * 0" THEN WeekUnits
    ELSE 0

\* cronParser.parseExpression(schedule, {currentDate}).next(): the first
\* fire time strictly after currentDate
\* (a schedule fires at the multiples of its period counted from one day
\* before time 0, so time 0 is on the hour and one day past a Sunday midnight)
CronNext(schedule, currentDate) ==
    LET p == CronPeriod(schedule)
    IN (((currentDate + DayUnits) \div p) + 1) * p - DayUnits

isDue(entry, now) ==
    IF ~entry.enabled THEN FALSE
    ELSE IF entry.schedule = "" THEN FALSE
    ELSE IF CronPeriod(entry.schedule) = 0 THEN FALSE
    ELSE CronNext(entry.schedule,
                  IF entry.lastRun # NullTime THEN entry.lastRun ELSE now - DayUnits) <= now

\* the schedules an entry can carry: every half hour, hourly, weekly, none,
\* and text cron-parser rejects
Schedules == {"*/30 * * * *", "0 * * * *", "0 0 * * 0", "", "every day"}

NoDueCall ==
    [called |-> FALSE, enabled |-> FALSE, schedule |-> "", lastRun |-> NullTime,
     now |-> 0, due |-> FALSE]

\* isDue(entry) called at time now
IsDueCall ==
    /\ \E enabled \in BOOLEAN, schedule \in Schedules,
          lastRun \in {NullTime} \cup 0..MaxDueTime, now \in 0..MaxDueTime :
          dueCall' = [called |-> TRUE, enabled |-> enabled, schedule |-> schedule,
                      lastRun |-> lastRun, now |-> now,
                      due |-> isDue([enabled |-> enabled, schedule |-> schedule,
                                     lastRun |-> lastRun], now)]
    /\ UNCHANGED OutsideDue

isLowCompute(t) == t = "low_compute" \/ t = "critical" \/ t = "dead"

\* tick: the loop's test of one entry, up to the call of executeTask
Eligible(entry, t, now) ==
    /\ entry.enabled
    /\ isLowCompute(t) => entry.task \in essentialTasks
    /\ isDue(entry, now)

\* names every object literal inherits from Object.prototype
InheritedKeys == {"constructor"}

\* executeTask: BUILTIN_TASKS[entry.task] is truthy, for a key of the literal
\* and for an inherited name alike
hasTaskFn(task) == task \in BUILTIN_TASKS \cup InheritedKeys

\* what taskFn(taskContext) can do for that task: a built-in task settles in
\* one of the given ways, Object(taskContext) returns its argument, a result
\* without shouldWake
outcomesOf(task, outcomes) == IF task \in BUILTIN_TASKS THEN outcomes ELSE {"ok"}

\* tick: the loop from entry k on, up to the next await that suspends: the
\* index of the first eligible entry whose task exists (executeTask returns
\* at once on an unknown task), 0 if the loop runs to its end
RECURSIVE NextTask(_, _, _, _)
NextTask(entries, t, now, k) ==
    IF k > Len(entries) THEN 0
    ELSE IF Eligible(entries[k], t, now) /\ hasTaskFn(entries[k].task) THEN k
    ELSE NextTask(entries, t, now, k + 1)

\* tick() suspended at await agentClient.getCreditsBalance(); a suspended
\* tick holds the locals it still reads: entries, tier, the loop position
NewTick(entries) == [pc |-> "balance", idx |-> 0, entries |-> entries, tier |-> "unset"]

\* a tick whose return leaves the tick counter as it was
ResumeTick_NoReset(t, tr, k) ==
    LET j == NextTask(t.entries, tr, clock, k)
    IN IF j = 0
       THEN /\ ticks' = ticks (-) SetToBag({t})
            /\ tickFailStreak' = 0
            /\ UNCHANGED consecutiveTickErrors
       ELSE /\ ticks' = (ticks (-) SetToBag({t}))
                            (+) SetToBag({[t EXCEPT !.pc = "task", !.idx = j, !.tier = tr]})
            /\ UNCHANGED <<consecutiveTickErrors, tickFailStreak>>

\* a tick that starts all its due tasks at once
ResumeTick_AllAtOnce(t, tr, k) ==
    LET due == {j \in k..Len(t.entries) :
                   Eligible(t.entries[j], tr, clock) /\ hasTaskFn(t.entries[j].task)}
    IN IF due = {} \/ t.pc = "task"
       THEN /\ ticks' = ticks (-) SetToBag({t})
            /\ consecutiveTickErrors' = 0
            /\ tickFailStreak' = 0
       ELSE /\ ticks' = (ticks (-) SetToBag({t}))
                            (+) SetToBag({[t EXCEPT !.pc = "task", !.idx = j, !.tier = tr] :
                                             j \in due})
            /\ UNCHANGED <<consecutiveTickErrors, tickFailStreak>>

\* the suspended tick t goes on from entry k as a tick of tier tr: to its
\* next task, or to its return and safeTick's reset of the tick counter
ResumeTick(t, tr, k) ==
    LET j == NextTask(t.entries, tr, clock, k)
    IN IF j = 0
       THEN /\ ticks' = ticks (-) SetToBag({t})
            /\ consecutiveTickErrors' = 0
            /\ tickFailStreak' = 0
       ELSE /\ ticks' = (ticks (-) SetToBag({t}))
                            (+) SetToBag({[t EXCEPT !.pc = "task", !.idx = j, !.tier = tr]})
            /\ UNCHANGED <<consecutiveTickErrors, tickFailStreak>>

\* what getCreditsBalance() can do: reject, or resolve to a balance
DaemonBalances == {0, 10, 50, 51}

BalanceOutcomes ==
    {[ok |-> FALSE, cents |-> 0]} \cup {[ok |-> TRUE, cents |-> c] : c \in DaemonBalances}

\* a failed query that is taken for a healthy balance
creditsAfterQuery_Optimistic(outcome) == IF outcome.ok THEN outcome.cents ELSE 51

\* let creditsCents = 0; try { creditsCents = await getCreditsBalance() } catch {}
creditsAfterQuery(outcome) == IF outcome.ok THEN outcome.cents ELSE 0

\* tick: getCreditsBalance() settles, the tier is computed, the loop starts
BalanceSettle ==
    /\ \E t \in BagToSet(ticks) :
        /\ t.pc = "balance"
        /\ \E outcome \in BalanceOutcomes :
            LET creditsCents == creditsAfterQuery(outcome)
                tr == getSurvivalTier(creditsCents)
            IN /\ ResumeTick(t, tr, 1)
               /\ daemonOp' = DaemonOp("balance", None, IF outcome.ok THEN "ok" ELSE "throw",
                                       creditsCents, tr, consecutiveTickErrors)
    /\ wakeLog' = <<>>
    /\ UNCHANGED <<running, timerArmed, consecutiveTaskErrors, failStreak,
                   hbEntries, clock, OutsideDaemon>>

\* what taskFn(taskContext) can do: resolve without or with shouldWake, or reject
TaskOutcomes == {"ok", "wake", "throw"}

TaskOutcomesHealthy == {"ok", "wake"}

TaskOutcomesQuiet == {"ok", "throw"}

TaskWake(name) == [kind |-> "task_wake", name |-> name, count |-> 0]

TaskFailedWake(name, count) == [kind |-> "task_failed", name |-> name, count |-> count]

StoppedWake(count) == [kind |-> "daemon_stopped", name |-> None, count |-> count]

\* a success that leaves the error counter as it was
taskSucceeded_NoReset(counters, name) == counters

\* executeTask, try branch: consecutiveTaskErrors.set(entry.name, 0)
taskSucceeded(counters, name) == [counters EXCEPT ![name] = 0]

\* the wake one failure late
failureWakes_Late(name, count) ==
    IF count > MAX_CONSECUTIVE_TASK_ERRORS
    THEN <<TaskFailedWake(name, count)>>
    ELSE <<>>

\* executeTask, catch branch: the wake once the count has reached the threshold
failureWakes(name, count) ==
    IF count >= MAX_CONSECUTIVE_TASK_ERRORS
    THEN <<TaskFailedWake(name, count)>>
    ELSE <<>>

\* how the getCreditsBalance() of check_credits settles
CheckOutcomes ==
    {[ok |-> FALSE, cents |-> 0]} \cup {[ok |-> TRUE, cents |-> c] : c \in CreditRange}

\* the value of last_credit_check before the first write
NoRecord == [credits |-> 0, tier |-> None, timestamp |-> NullTime]

NoCheck == [outcome |-> None, tier |-> None, prevTier |-> None, shouldWake |-> FALSE]

\* a check_credits that wakes at every check of a critical or dead tier
check_credits_LevelTriggered(prev, cents) ==
    LET t == getSurvivalTier(cents)
    IN [outcome |-> "ok", tier |-> t, prevTier |-> prev,
        shouldWake |-> t = "critical" \/ t = "dead"]

\* a check_credits that takes a missing prev_credit_tier for a different tier
check_credits_WakeOnFirst(prev, cents) ==
    LET t == getSurvivalTier(cents)
    IN [outcome |-> "ok", tier |-> t, prevTier |-> prev,
        shouldWake |-> prev # t /\ (t = "critical" \/ t = "dead")]

\* BUILTIN_TASKS.check_credits after the balance has arrived: the tier, the
\* value getKV("prev_credit_tier") returned, and the shouldWake of the result
check_credits(prev, cents) ==
    LET t == getSurvivalTier(cents)
    IN [outcome |-> "ok", tier |-> t, prevTier |-> prev,
        shouldWake |-> /\ prev # None
                       /\ prev # t
                       /\ (t = "critical" \/ t = "dead")]

\* one call of the check_credits task, from the settling of its balance query
CheckCredits ==
    /\ \E balance \in CheckOutcomes :
        IF ~balance.ok
        THEN /\ creditCheck' = [NoCheck EXCEPT !.outcome = "throw"]
             /\ UNCHANGED <<prev_credit_tier, last_credit_check>>
        ELSE LET result == check_credits(prev_credit_tier, balance.cents)
             IN /\ last_credit_check' = [credits |-> balance.cents, tier |-> result.tier,
                                         timestamp |-> clock]
                /\ prev_credit_tier' = result.tier
                /\ creditCheck' = result
    /\ UNCHANGED OutsideCreditCheck

\* recordTransition: if (history.length > 50)
TransitionsKept == 50

\* history.splice(0, history.length - 50) when the history is longer than 50
keepLast_DropNewest(history, n) ==
    IF Len(history) > n THEN SubSeq(history, 1, n)
    ELSE history

\* history.splice(0, history.length - n) when history.length > n
keepLast(history, n) ==
    IF Len(history) > n THEN SubSeq(history, Len(history) - n + 1, Len(history))
    ELSE history

NoTransition == [from |-> None, to |-> None, timestamp |-> NullTime, creditsCents |-> 0]

\* a balance of each tier, for the creditsCents argument
BalanceOf(t) ==
    CASE t = "normal" -> 51
      [] t = "low_compute" -> 50
      [] t = "critical" -> 10
      [] t = "dead" -> 0

\* recordTransition(db, from, to, creditsCents): the history after the call
recordTransition(history, from, to, creditsCents, now) ==
    keepLast(Append(history, [from |-> from, to |-> to, timestamp |-> now,
                              creditsCents |-> creditsCents]),
             TransitionsKept)

\* one call of recordTransition, with the tiers of one of the given pairs,
\* on a history shorter than the limit
RecordTransitionWith(pairs, limit) ==
    /\ Len(tier_transitions) < limit
    /\ \E pair \in pairs :
        /\ tier_transitions' =
              recordTransition(tier_transitions, pair[1], pair[2], BalanceOf(pair[2]), clock)
        /\ transitionCall' = [from |-> pair[1], to |-> pair[2], timestamp |-> clock,
                              creditsCents |-> BalanceOf(pair[2])]
    /\ UNCHANGED <<inferenceCheck, OutsideSurvival>>

\* one call of recordTransition
RecordTransition == RecordTransitionWith(Tiers \X Tiers, MaxTransitions)

\* the tier one step down, and up again from dead
TierAfter(t) ==
    CASE t = "normal" -> "low_compute"
      [] t = "low_compute" -> "critical"
      [] t = "critical" -> "dead"
      [] t = "dead" -> "normal"

\* the next transition of an agent that starts at normal and goes round the
\* tiers: from the tier the latest recorded transition led to
ChainPair ==
    LET from == IF tier_transitions = <<>> THEN "normal"
                ELSE tier_transitions[Len(tier_transitions)].to
    IN <<from, TierAfter(from)>>

\* a canRunInference that lets every tier run inference
canRunInference_Always(t) == TRUE

\* canRunInference(tier)
canRunInference(t) == t = "normal" \/ t = "low_compute" \/ t = "critical"

\* one call of canRunInference
CanRunInference ==
    /\ \E t \in Tiers : inferenceCheck' = [tier |-> t, allowed |-> canRunInference(t)]
    /\ UNCHANGED <<tier_transitions, transitionCall, OutsideSurvival>>

\* the value of last_heartbeat_ping before the first write
NoSnapshot == [creditsCents |-> 0, tier |-> None, timestamp |-> NullTime]

\* the value of last_distress before the first write
NoDistress == [level |-> None, creditsCents |-> 0, timestamp |-> NullTime]

NoPing == [outcome |-> None, credits |-> 0, shouldWake |-> FALSE, message |-> <<>>]

\* (credits / 100).toFixed(2): sign, whole dollars and two decimals; the
\* balances of the model are whole cents
toFixed2(cents) ==
    LET abs == IF cents < 0 THEN 0 - cents ELSE cents
    IN [negative |-> cents < 0, whole |-> abs \div 100, decimals |-> abs % 100]

\* `Distress: ${tier}. Credits: $${(credits / 100).toFixed(2)}. Need funding.`
DistressMessage(t, cents) ==
    <<"Distress: ", t, ". Credits: $", toFixed2(cents), ". Need funding.">>

\* a heartbeat_ping that reports distress only for the dead tier
pingDistress_DeadOnly(t) == t = "dead"

\* heartbeat_ping: if (tier === "critical" || tier === "dead")
pingDistress(t) == t = "critical" \/ t = "dead"

\* one call of the heartbeat_ping task, from the settling of its balance query
HeartbeatPing ==
    /\ \E balance \in CheckOutcomes :
        IF ~balance.ok
        THEN /\ pingResult' = [NoPing EXCEPT !.outcome = "throw"]
             /\ UNCHANGED <<last_heartbeat_ping, last_distress>>
        ELSE LET t == getSurvivalTier(balance.cents)
             IN /\ last_heartbeat_ping' = [creditsCents |-> balance.cents, tier |-> t,
                                           timestamp |-> clock]
                /\ IF pingDistress(t)
                   THEN /\ last_distress' = [level |-> t, creditsCents |-> balance.cents,
                                             timestamp |-> clock]
                        /\ pingResult' = [outcome |-> "ok", credits |-> balance.cents,
                                          shouldWake |-> TRUE,
                                          message |-> DistressMessage(t, balance.cents)]
                   ELSE /\ UNCHANGED last_distress
                        /\ pingResult' = [outcome |-> "ok", credits |-> balance.cents,
                                          shouldWake |-> FALSE, message |-> <<>>]
    /\ UNCHANGED OutsidePing

\* executeTask(entry) from the moment taskFn(taskContext) settles
executeTask(entry, outcome) ==
    IF outcome = "throw"
    THEN LET count == consecutiveTaskErrors[entry.name] + 1
         IN /\ consecutiveTaskErrors' = [consecutiveTaskErrors EXCEPT ![entry.name] = count]
            /\ wakeLog' = failureWakes(entry.name, count)
            /\ failStreak' = [failStreak EXCEPT ![entry.name] = @ + 1]
            /\ UNCHANGED hbEntries
    ELSE /\ consecutiveTaskErrors' = taskSucceeded(consecutiveTaskErrors, entry.name)
         /\ hbEntries' = updateHeartbeatLastRun(hbEntries, entry.name, clock)
         /\ wakeLog' = IF outcome = "wake" THEN <<TaskWake(entry.name)>> ELSE <<>>
         /\ failStreak' = [failStreak EXCEPT ![entry.name] = 0]

\* a tick in which a throwing task is not caught by executeTask: the tick
\* ends there and counts as failed
TaskSettle_AbortOnThrow(outcomes) ==
    /\ \E t \in BagToSet(ticks) :
        /\ t.pc = "task"
        /\ \E outcome \in outcomesOf(t.entries[t.idx].task, outcomes) :
            LET entry == t.entries[t.idx]
            IN /\ outcome = "throw" => consecutiveTaskErrors[entry.name] < MaxTaskErrors
               /\ executeTask(entry, outcome)
               /\ IF outcome = "throw"
                  THEN /\ ticks' = ticks (-) SetToBag({t})
                       /\ consecutiveTickErrors' = consecutiveTickErrors + 1
                       /\ tickFailStreak' = tickFailStreak + 1
                  ELSE ResumeTick(t, t.tier, t.idx + 1)
               /\ daemonOp' = DaemonOp("task", entry.name, outcome, 0, t.tier,
                                       consecutiveTaskErrors[entry.name])
    /\ UNCHANGED <<running, timerArmed, clock, OutsideDaemon>>

\* tick: the task of the current entry settles, the loop goes on
TaskSettle(outcomes) ==
    /\ \E t \in BagToSet(ticks) :
        /\ t.pc = "task"
        /\ \E outcome \in outcomesOf(t.entries[t.idx].task, outcomes) :
            LET entry == t.entries[t.idx]
            IN /\ outcome = "throw" => consecutiveTaskErrors[entry.name] < MaxTaskErrors
               /\ executeTask(entry, outcome)
               /\ ResumeTick(t, t.tier, t.idx + 1)
               /\ daemonOp' = DaemonOp("task", entry.name, outcome, 0, t.tier,
                                       consecutiveTaskErrors[entry.name])
    /\ UNCHANGED <<running, timerArmed, clock, OutsideDaemon>>

\* stop(), as a function of running and intervalId
stop(run, armed) ==
    IF ~run
    THEN [running |-> run, timerArmed |-> armed]
    ELSE [running |-> FALSE, timerArmed |-> FALSE]

\* a catch branch that counts and wakes at the threshold but does not stop
safeTickCatch_WakeOnly(run, armed) ==
    LET n == consecutiveTickErrors + 1
    IN /\ consecutiveTickErrors' = n
       /\ tickFailStreak' = tickFailStreak + 1
       /\ running' = run
       /\ timerArmed' = armed
       /\ wakeLog' = IF n >= MAX_CONSECUTIVE_TICK_ERRORS THEN <<StoppedWake(n)>> ELSE <<>>

\* safeTick, catch branch; run and armed are running and intervalId as the
\* caller has left them
safeTickCatch(run, armed) ==
    LET n == consecutiveTickErrors + 1
    IN /\ consecutiveTickErrors' = n
       /\ tickFailStreak' = tickFailStreak + 1
       /\ IF n >= MAX_CONSECUTIVE_TICK_ERRORS
          THEN /\ running' = stop(run, armed).running
               /\ timerArmed' = stop(run, armed).timerArmed
               /\ wakeLog' = <<StoppedWake(n)>>
          ELSE /\ running' = run
               /\ timerArmed' = armed
               /\ wakeLog' = <<>>

\* what db.getHeartbeatEntries() can do: return the rows, or throw
DbReads == {"ok", "throw"}

DbReadsDown == {"throw"}

DbReadsHealthy == {"ok"}

\* safeTick() up to the first await of tick(): db.getHeartbeatEntries()
\* returns the rows, or throws and the tick has failed; limit bounds the
\* ticks in flight
safeTick(run, armed, op, reads, limit) ==
    /\ \E read \in reads :
        /\ daemonOp' = DaemonOp(op, None, read, 0, None, 0)
        /\ IF read = "ok"
           THEN /\ BagCardinality(ticks) < limit
                /\ ticks' = ticks (+) SetToBag({NewTick(getHeartbeatEntries(hbEntries))})
                /\ running' = run
                /\ timerArmed' = armed
                /\ wakeLog' = <<>>
                /\ UNCHANGED <<consecutiveTickErrors, tickFailStreak>>
           ELSE /\ consecutiveTickErrors < MaxTickErrors
                /\ safeTickCatch(run, armed)
                /\ UNCHANGED ticks
    /\ UNCHANGED <<consecutiveTaskErrors, failStreak, hbEntries, clock, OutsideDaemon>>

\* a start() without its test of running
Start_Unguarded(reads, limit) == safeTick(TRUE, TRUE, "start", reads, limit)

\* start()
Start(reads, limit) ==
    IF running
    THEN UNCHANGED vars
    ELSE safeTick(TRUE, TRUE, "start", reads, limit)

\* the names forceRun is called with; no row has the last one
ForceNames == HbNames \cup {"no_such_entry"}

\* entries.find((e) => e.name === taskName): the rows of that name
FindEntry(entries, taskName) ==
    {entries[i] : i \in {j \in 1..Len(entries) : entries[j].name = taskName}}

\* a forceRun that runs the entry only if it is enabled and due
ForceRun_OnlyIfDue(reads) ==
    /\ \E taskName \in ForceNames, read \in reads :
        LET found == IF read = "ok"
                     THEN {e \in FindEntry(getHeartbeatEntries(hbEntries), taskName) :
                              isDue(e, clock)}
                     ELSE {}
            started == {e \in found : hasTaskFn(e.task)}
        IN /\ forced' = forced (+) SetToBag(started)
           /\ BagCardinality(forced') <= MaxForced
           /\ daemonOp' = DaemonOp("forceRun", taskName,
                                   IF read = "throw" THEN "throw"
                                   ELSE IF started = {} THEN "nothing" ELSE "pending",
                                   0, None, 0)
    /\ wakeLog' = <<>>
    /\ UNCHANGED <<consecutiveTaskErrors, failStreak, hbEntries, clock, OutsideForceRun>>

\* forceRun(taskName) up to the await of taskFn in executeTask: the rows are
\* read, the entry of that name is looked up, and executeTask is entered for
\* it; executeTask returns at once when the entry's task is unknown
ForceRun(reads) ==
    /\ \E taskName \in ForceNames, read \in reads :
        LET found == IF read = "ok"
                     THEN FindEntry(getHeartbeatEntries(hbEntries), taskName)
                     ELSE {}
            started == {e \in found : hasTaskFn(e.task)}
        IN /\ forced' = forced (+) SetToBag(started)
           /\ BagCardinality(forced') <= MaxForced
           /\ daemonOp' = DaemonOp("forceRun", taskName,
                                   IF read = "throw" THEN "throw"
                                   ELSE IF started = {} THEN "nothing" ELSE "pending",
                                   0, None, 0)
    /\ wakeLog' = <<>>
    /\ UNCHANGED <<consecutiveTaskErrors, failStreak, hbEntries, clock, OutsideForceRun>>

\* forceRun: the task settles, executeTask and forceRun return
ForceSettle(outcomes) ==
    /\ \E entry \in BagToSet(forced), outcome \in outcomes :
        /\ outcome \in outcomesOf(entry.task, outcomes)
        /\ outcome = "throw" => consecutiveTaskErrors[entry.name] < MaxTaskErrors
        /\ executeTask(entry, outcome)
        /\ forced' = forced (-) SetToBag({entry})
        /\ daemonOp' = DaemonOp("forced", entry.name, outcome, 0, None,
                                consecutiveTaskErrors[entry.name])
    /\ UNCHANGED <<clock, OutsideForceRun>>

\* createHeartbeatDaemon: the closure variables of a daemon just created
NewDaemon ==
    [running |-> FALSE, timerArmed |-> FALSE, consecutiveTickErrors |-> 0]

\* stop() of a daemon with the closure d
closureStop(d) ==
    [d EXCEPT !.running = stop(d.running, d.timerArmed).running,
              !.timerArmed = stop(d.running, d.timerArmed).timerArmed]

\* safeTick, catch branch, of a daemon with the closure d
closureTickFailed(d) ==
    LET n == d.consecutiveTickErrors + 1
        counted == [d EXCEPT !.consecutiveTickErrors = n]
    IN IF n >= MAX_CONSECUTIVE_TICK_ERRORS THEN closureStop(counted) ELSE counted

\* a second daemon whose failed ticks are counted in a counter shared by
\* every daemon of the module
PeerTickFailed_SharedCounter(armed) ==
    /\ consecutiveTickErrors < MaxTickErrors
    /\ consecutiveTickErrors' = consecutiveTickErrors + 1
    /\ peer' = [peer EXCEPT !.running = TRUE, !.timerArmed = armed]
    /\ UNCHANGED <<tierVars, execVars, auditVars, fileVars, auditReturn, selfModVars,
                   kvVars, sandboxVars, walletVars, dueCall, lateVars, running,
                   timerArmed,
                   consecutiveTaskErrors,
                   ticks, wakeLog,
                   daemonOp, failStreak, tickFailStreak, forced>>

\* a tick of the second daemon that fails at its read of the table: start()
\* or the timer has called safeTick, the catch branch runs
PeerTickFailed(armed) ==
    /\ peer.consecutiveTickErrors < MaxTickErrors
    /\ peer' = closureTickFailed([peer EXCEPT !.running = TRUE, !.timerArmed = armed])
    /\ UNCHANGED OutsidePeer

\* start() of the second daemon
PeerStart ==
    IF peer.running
    THEN UNCHANGED vars
    ELSE PeerTickFailed(TRUE)

\* the setInterval callback of the second daemon
PeerTimerFire ==
    /\ peer.timerArmed
    /\ PeerTickFailed(peer.timerArmed)

\* stop() of the second daemon
PeerStop ==
    /\ peer' = closureStop(peer)
    /\ UNCHANGED OutsidePeer

\* a stop() that also drops the ticks in flight
Stop_AbortsTicks ==
    IF ~running
    THEN UNCHANGED vars
    ELSE /\ running' = FALSE
         /\ timerArmed' = FALSE
         /\ ticks' = EmptyBag
         /\ daemonOp' = DaemonOp("stop", None, None, 0, None, 0)
         /\ wakeLog' = <<>>
         /\ UNCHANGED <<consecutiveTickErrors, consecutiveTaskErrors, failStreak,
                        tickFailStreak, hbEntries, clock, OutsideDaemon>>

\* stop()
Stop ==
    IF ~running
    THEN UNCHANGED vars
    ELSE /\ running' = stop(running, timerArmed).running
         /\ timerArmed' = stop(running, timerArmed).timerArmed
         /\ daemonOp' = DaemonOp("stop", None, None, 0, None, 0)
         /\ wakeLog' = <<>>
         /\ UNCHANGED <<consecutiveTickErrors, consecutiveTaskErrors, ticks, failStreak,
                        tickFailStreak, hbEntries, clock, OutsideDaemon>>

\* the setInterval callback
TimerFire(reads, limit) ==
    /\ timerArmed
    /\ safeTick(running, timerArmed, "timer", reads, limit)

(***************************************************************************)
(* Properties of the heartbeat daemon.                                     *)
(***************************************************************************)
\* the step is one of the daemon, not the passing of time
DaemonStep == daemonVars' # daemonVars

\* the onWakeRequest calls of a log that carry a reason of that kind about that entry
WakesOf(log, kind, name) ==
    {i \in 1..Len(log) : log[i].kind = kind /\ log[i].name = name}

\* an entry a tick of a tier other than normal may run, at this time
DueEssential(entry) ==
    /\ entry.enabled
    /\ entry.task \in {"heartbeat_ping", "check_credits", "check_usdc_balance",
                       "check_social_inbox"}
    /\ entry.task \in BUILTIN_TASKS
    /\ isDue(entry, clock)

\* C6: when getCreditsBalance() fails during a tick, the balance of that tick
\* is 0 and its tier dead; the tick is not aborted (it goes on to its due
\* essential entries, or returns if there is none), the failure is not a tick
\* failure (the tick counter does not grow, the daemon keeps its running
\* state), and no tick carries a tier over: a tick that awaits its balance has
\* no tier, and a tick whose query succeeds runs under the tier of the
\* balance it was given.
C6_BalanceFailure ==
    [][(DaemonStep /\ daemonOp'.op = "balance") =>
        /\ \A t \in BagToSet(ticks') : t.pc = "balance" => t.tier = "unset"
        /\ \A t \in BagToSet(ticks') :
              (t.pc = "task" /\ t \notin BagToSet(ticks)) => t.tier = daemonOp'.tier
        /\ daemonOp'.outcome = "ok" => daemonOp'.tier = getSurvivalTier(daemonOp'.cents)
        /\ daemonOp'.outcome = "throw" =>
              /\ daemonOp'.cents = 0
              /\ daemonOp'.tier = "dead"
              /\ consecutiveTickErrors' <= consecutiveTickErrors
              /\ tickFailStreak' <= tickFailStreak
              /\ running' = running
              /\ timerArmed' = timerArmed
              /\ \E t \in BagToSet(ticks) :
                    /\ t.pc = "balance"
                    /\ IF \E k \in 1..Len(t.entries) : DueEssential(t.entries[k])
                       THEN \E u \in BagToSet(ticks') :
                               /\ u.pc = "task"
                               /\ u.tier = "dead"
                               /\ u.entries = t.entries
                               /\ DueEssential(u.entries[u.idx])
                       ELSE ticks' = ticks (-) SetToBag({t})
       ]_vars

\* after four failed ticks and a tick of tier normal before them, the balance
\* query of a tick has failed and the tick is running heartbeat_ping as a dead tick
C6_Witness ==
    /\ daemonOp.op = "balance"
    /\ daemonOp.outcome = "throw"
    /\ tickFailStreak = 4
    /\ running
    /\ timerArmed
    /\ hbEntries["check_for_updates"].lastRun # NullTime
    /\ \E u \in BagToSet(ticks) :
          u.pc = "task" /\ u.tier = "dead" /\ u.entries[u.idx].name = "heartbeat_ping"

\* the entry is touched by the step: its error counter or its row changes, or
\* a wake request of the step names it
Touched(n) ==
    \/ consecutiveTaskErrors'[n] # consecutiveTaskErrors[n]
    \/ hbEntries'[n] # hbEntries[n]
    \/ \E i \in 1..Len(wakeLog') : wakeLog'[i].name = n

\* C7: in a tick whose tier is not normal only enabled entries with a task of
\* the essential allow-list are executed; any other entry is passed over with
\* its failure counter and its lastRun unchanged and without a wake request.
C7_EssentialOnly ==
    [][DaemonStep =>
        /\ \A t \in BagToSet(ticks') :
              (t.pc = "task" /\ t.tier # "normal") =>
                  /\ t.entries[t.idx].enabled
                  /\ t.entries[t.idx].task \in
                        {"heartbeat_ping", "check_credits", "check_usdc_balance",
                         "check_social_inbox"}
        /\ \A n \in HbNames :
              Touched(n) =>
                  /\ daemonOp'.op = "task"
                  /\ daemonOp'.name = n
                  /\ daemonOp'.tier # "normal" =>
                        /\ hbEntries[n].enabled
                        /\ hbEntries[n].task \in
                              {"heartbeat_ping", "check_credits", "check_usdc_balance",
                               "check_social_inbox"}
       ]_vars

\* a critical tick has run heartbeat_ping and returned, and check_for_updates,
\* enabled and due, has been left as it was
C7_Witness ==
    /\ daemonOp = DaemonOp("task", "heartbeat_ping", "ok", 0, "critical", 0)
    /\ ticks = EmptyBag
    /\ hbEntries["heartbeat_ping"].lastRun = clock
    /\ hbEntries["check_for_updates"].enabled
    /\ hbEntries["check_for_updates"].lastRun = NullTime
    /\ isDue(EntryOf(hbEntries, "check_for_updates"), clock)
    /\ consecutiveTaskErrors["check_for_updates"] = 0
    /\ wakeLog = <<>>

\* C8: the third failure in a row of an entry's task (no success of it in
\* between) makes one onWakeRequest call whose reason carries the entry's name
\* and the count 3, and leaves the daemon running with its timer armed.
C8_ThirdFailureWakes ==
    [][\A n \in HbNames :
          (failStreak[n] = 2 /\ failStreak'[n] = 3) =>
              /\ wakeLog' = <<[kind |-> "task_failed", name |-> n, count |-> 3]>>
              /\ running' = running
              /\ timerArmed' = timerArmed
       ]_vars

\* heartbeat_ping has just failed for the third time in a row under a running daemon
C8_Witness ==
    /\ daemonOp.op = "task"
    /\ daemonOp.name = "heartbeat_ping"
    /\ daemonOp.outcome = "throw"
    /\ failStreak["heartbeat_ping"] = 3
    /\ wakeLog = <<TaskFailedWake("heartbeat_ping", 3)>>
    /\ running
    /\ timerArmed

\* C9: a successful execution of an entry sets its consecutive-failure counter
\* to zero; an escalation wake about an entry is made only by a step that
\* leaves the entry with at least 3 failures since its latest success (so the
\* first failure after a success does not escalate); no counter is negative.
C9_SuccessResets ==
    [][DaemonStep =>
        \A n \in HbNames :
            /\ (daemonOp'.op = "task" /\ daemonOp'.name = n /\ daemonOp'.outcome # "throw")
                  => consecutiveTaskErrors'[n] = 0
            /\ WakesOf(wakeLog', "task_failed", n) # {} => failStreak'[n] >= 3
            /\ (failStreak[n] = 0 /\ failStreak'[n] = 1)
                  => WakesOf(wakeLog', "task_failed", n) = {}
            /\ consecutiveTaskErrors'[n] >= 0
       ]_vars

\* heartbeat_ping has just succeeded after three failures in a row
C9_Witness ==
    /\ daemonOp.op = "task"
    /\ daemonOp.name = "heartbeat_ping"
    /\ daemonOp.outcome = "ok"
    /\ daemonOp.prior = 3
    /\ consecutiveTaskErrors["heartbeat_ping"] = 0
    /\ failStreak["heartbeat_ping"] = 0

\* C10: the fifth failed tick in a row (no successful tick in between) leaves
\* isRunning() false and the timer disarmed and makes exactly one
\* onWakeRequest call reporting the stopped daemon; a wake of that kind is
\* made only by a step that stops the daemon; and the timer starts a tick
\* only while it is armed, which it is only while the daemon is running.
C10_SelfStop ==
    [][DaemonStep =>
        /\ (tickFailStreak = 4 /\ tickFailStreak' = 5) =>
              /\ ~running'
              /\ ~timerArmed'
              /\ Cardinality(WakesOf(wakeLog', "daemon_stopped", None)) = 1
              /\ Len(wakeLog') = 1
        /\ WakesOf(wakeLog', "daemon_stopped", None) # {} =>
              /\ ~running'
              /\ running \/ daemonOp'.op = "start"
        /\ daemonOp'.op = "timer" => (timerArmed /\ running)
        /\ timerArmed' => running'
       ]_vars

\* the timer's tick has failed as the fifth in a row and the daemon has stopped
C10_Witness ==
    /\ daemonOp.op = "timer"
    /\ daemonOp.outcome = "throw"
    /\ tickFailStreak = 5
    /\ ~running
    /\ ~timerArmed
    /\ wakeLog = <<StoppedWake(5)>>

\* C11: a tick that returns sets the whole-tick failure counter to zero; the
\* daemon stops itself (and reports it) only in a step that leaves at least 5
\* failed ticks in a row, and a failed tick that leaves fewer than 5 in a row
\* leaves the daemon running with its timer armed.
C11_SuccessfulTickResets ==
    [][DaemonStep =>
        /\ BagCardinality(ticks') < BagCardinality(ticks) => consecutiveTickErrors' = 0
        /\ WakesOf(wakeLog', "daemon_stopped", None) # {} => tickFailStreak' >= 5
        /\ (running /\ ~running') => (daemonOp'.op = "stop" \/ tickFailStreak' >= 5)
        /\ (daemonOp'.op \in {"start", "timer"} /\ daemonOp'.outcome = "throw"
                /\ tickFailStreak' < 5) =>
              /\ running'
              /\ timerArmed'
       ]_vars

\* a tick has returned after four failed ticks: the counter is back at zero
\* and the daemon is running
C11_Witness ==
    /\ daemonOp.op = "balance"
    /\ daemonOp.prior = 4
    /\ ticks = EmptyBag
    /\ consecutiveTickErrors = 0
    /\ tickFailStreak = 0
    /\ running
    /\ timerArmed

\* an entry a tick of that tier runs when its loop comes to it, at this time
RunsIn(entry, tr) ==
    IF tr = "normal"
    THEN entry.enabled /\ entry.task \in BUILTIN_TASKS /\ isDue(entry, clock)
    ELSE DueEssential(entry)

\* C12: a task that throws changes its own entry's failure counter and
\* nothing else: the whole-tick counter does not grow, the daemon keeps
\* running as it was and reports no stop, no other counter and no row
\* changes, and the tick goes on to its next due entry (or returns when
\* there is none).
C12_TaskFailureContained ==
    [][(DaemonStep /\ daemonOp'.op = "task" /\ daemonOp'.outcome = "throw") =>
        /\ consecutiveTickErrors' <= consecutiveTickErrors
        /\ tickFailStreak' <= tickFailStreak
        /\ running' = running
        /\ timerArmed' = timerArmed
        /\ WakesOf(wakeLog', "daemon_stopped", None) = {}
        /\ hbEntries' = hbEntries
        /\ \A m \in HbNames :
              consecutiveTaskErrors'[m] =
                  IF m = daemonOp'.name THEN consecutiveTaskErrors[m] + 1
                  ELSE consecutiveTaskErrors[m]
        /\ \E t \in BagToSet(ticks) :
              /\ t.pc = "task"
              /\ t.entries[t.idx].name = daemonOp'.name
              /\ LET rest == {k \in (t.idx + 1)..Len(t.entries) : RunsIn(t.entries[k], t.tier)}
                 IN IF rest = {}
                    THEN ticks' = ticks (-) SetToBag({t})
                    ELSE \E u \in BagToSet(ticks') :
                            /\ u.pc = "task"
                            /\ u.entries = t.entries
                            /\ u.tier = t.tier
                            /\ u.idx \in rest
                            /\ \A k \in rest : u.idx <= k
       ]_vars

\* after four failed ticks, heartbeat_ping has thrown in a tick of tier normal
\* and the tick has gone on to check_for_updates under a running daemon
C12_Witness ==
    /\ daemonOp.op = "task"
    /\ daemonOp.name = "heartbeat_ping"
    /\ daemonOp.outcome = "throw"
    /\ consecutiveTickErrors = 4
    /\ consecutiveTaskErrors["heartbeat_ping"] = 1
    /\ running
    /\ timerArmed
    /\ \E u \in BagToSet(ticks) :
          u.pc = "task" /\ u.tier = "normal" /\ u.entries[u.idx].name = "check_for_updates"

\* C13: at most one tick of the daemon is in progress at any time: the timer
\* does not begin a tick while an earlier tick is still in flight.
C13_NoOverlappingTicks == BagCardinality(ticks) <= 1

\* C14: a tick runs its due entries one at a time in entry order: when its
\* balance query or its current task settles, the tick goes on to the first
\* later entry it is to run, as the same single tick, or returns if there is
\* none; settling never leaves more ticks or tasks in progress than before.
C14_SequentialTasks ==
    [][(DaemonStep /\ daemonOp'.op \in {"balance", "task"}) =>
        /\ BagCardinality(ticks') <= BagCardinality(ticks)
        /\ \E t \in BagToSet(ticks) :
              LET tr == daemonOp'.tier
                  rest == {k \in (t.idx + 1)..Len(t.entries) : RunsIn(t.entries[k], tr)}
                  first == CHOOSE k \in rest : \A m \in rest : k <= m
              IN /\ (t.pc = "balance") = (daemonOp'.op = "balance")
                 /\ t.pc = "task" =>
                        (t.tier = tr /\ t.entries[t.idx].name = daemonOp'.name)
                 /\ IF rest = {}
                    THEN ticks' = ticks (-) SetToBag({t})
                    ELSE ticks' = (ticks (-) SetToBag({t}))
                                     (+) SetToBag({[pc |-> "task", idx |-> first,
                                                    entries |-> t.entries, tier |-> tr]})
       ]_vars

\* heartbeat_ping has settled in a tick of tier normal and the tick, the only
\* one, is now running check_for_updates
C14_Witness ==
    /\ daemonOp = DaemonOp("task", "heartbeat_ping", "ok", 0, "normal", 0)
    /\ hbEntries["heartbeat_ping"].lastRun = clock
    /\ hbEntries["check_for_updates"].lastRun = NullTime
    /\ BagCardinality(ticks) = 1
    /\ \E u \in BagToSet(ticks) :
          u.pc = "task" /\ u.entries[u.idx].name = "check_for_updates"

\* C15: start() acts only on a stopped daemon and stop() only on a running
\* one; start() arms the timer only when none is armed, so at most one timer
\* is armed; a tick begun while the daemon is running is begun by the timer,
\* never by a second start(); and start() on a stopped daemon begins exactly
\* one immediate tick (one tick more in flight, or one tick failed) in the
\* step that arms the timer.
C15_StartStopIdempotent ==
    [][DaemonStep =>
        /\ daemonOp'.op = "start" =>
              /\ ~running
              /\ ~timerArmed
              /\ \/ /\ daemonOp'.outcome = "ok"
                    /\ BagCardinality(ticks') = BagCardinality(ticks) + 1
                    /\ tickFailStreak' = tickFailStreak
                    /\ running'
                    /\ timerArmed'
                 \/ /\ daemonOp'.outcome = "throw"
                    /\ ticks' = ticks
                    /\ tickFailStreak' = tickFailStreak + 1
                    /\ running' = (tickFailStreak' < 5)
                    /\ timerArmed' = running'
        /\ daemonOp'.op = "stop" => (running /\ ~running' /\ ~timerArmed')
        /\ (running /\ (BagCardinality(ticks') > BagCardinality(ticks)
                          \/ tickFailStreak' > tickFailStreak)) =>
              daemonOp'.op = "timer"
        /\ timerArmed' => running'
       ]_vars

\* a daemon that had run and was stopped has been started again: one tick is
\* in flight at its balance query and the timer is armed
C15_Witness ==
    /\ daemonOp.op = "start"
    /\ daemonOp.outcome = "ok"
    /\ running
    /\ timerArmed
    /\ hbEntries["heartbeat_ping"].lastRun # NullTime
    /\ BagCardinality(ticks) = 1
    /\ \A t \in BagToSet(ticks) : t.pc = "balance"

\* C16: a step that stops the daemon (stop() or the self-stop) disarms the
\* timer and leaves the ticks in flight as they are; a tick in flight under a
\* stopped daemon still goes on to the next entry it is to run, and returns
\* only when there is none; and no tick is begun by the timer while the
\* daemon is stopped.
C16_StopIsCooperative ==
    [][DaemonStep =>
        /\ (running /\ ~running') => (~timerArmed' /\ ticks' = ticks)
        /\ (daemonOp'.op = "start" /\ ~running') => ticks' = ticks
        /\ daemonOp'.op = "timer" => (running /\ timerArmed)
        /\ (~running /\ daemonOp'.op \in {"balance", "task"}) =>
              /\ ~running'
              /\ \E t \in BagToSet(ticks) :
                    LET rest == {k \in (t.idx + 1)..Len(t.entries) :
                                    RunsIn(t.entries[k], daemonOp'.tier)}
                    IN /\ (t.pc = "balance") = (daemonOp'.op = "balance")
                       /\ IF rest = {}
                          THEN ticks' = ticks (-) SetToBag({t})
                          ELSE \E u \in BagToSet(ticks') :
                                  /\ u.pc = "task"
                                  /\ u.entries = t.entries
                                  /\ u.idx \in rest
                                  /\ BagCardinality(ticks') = BagCardinality(ticks)
       ]_vars

\* the daemon has stopped itself on five failed ticks while a tick was in
\* flight; that tick has since run heartbeat_ping and gone on to check_for_updates
C16_Witness ==
    /\ ~running
    /\ ~timerArmed
    /\ tickFailStreak = 5
    /\ daemonOp.op = "task"
    /\ daemonOp.name = "heartbeat_ping"
    /\ \E u \in BagToSet(ticks) :
          u.pc = "task" /\ u.entries[u.idx].name = "check_for_updates"

\* C17: forceRun(name) executes the task of exactly the one entry with that
\* name, once, whether or not the entry is due, enabled or allowed by a tier
\* and whether or not the daemon is running, and executes no other entry; when
\* no entry has that name it does nothing and raises no error.
C17_ForceRunExactlyOne ==
    [][DaemonStep =>
        /\ (daemonOp'.op = "forceRun" /\ daemonOp'.outcome # "throw") =>
              LET n == daemonOp'.name
                  known == /\ n \in HbNames
                           /\ hbEntries[n].present
                           /\ hbEntries[n].task \in BUILTIN_TASKS
              IN /\ known =>
                       /\ daemonOp'.outcome = "pending"
                       /\ forced' = forced (+) SetToBag({EntryOf(hbEntries, n)})
                 /\ (n \notin HbNames \/ ~hbEntries[n].present) =>
                       /\ daemonOp'.outcome = "nothing"
                       /\ forced' = forced
                 /\ BagCardinality(forced') <= BagCardinality(forced) + 1
                 /\ wakeLog' = <<>>
                 /\ UNCHANGED <<hbEntries, consecutiveTaskErrors, ticks, running,
                                timerArmed, consecutiveTickErrors>>
        /\ daemonOp'.op = "forced" =>
              /\ \E e \in BagToSet(forced) :
                    /\ e.name = daemonOp'.name
                    /\ forced' = forced (-) SetToBag({e})
              /\ hbEntries'[daemonOp'.name].lastRun = clock
              /\ \A m \in HbNames \ {daemonOp'.name} : ~Touched(m)
              /\ UNCHANGED <<ticks, running, timerArmed, consecutiveTickErrors>>
        /\ forced' # forced => daemonOp'.op \in {"forceRun", "forced"}
    ]_vars

\* a stopped daemon; forceRun has entered the task of check_credits, an entry
\* that is disabled and that already ran at this very time
C17_Witness ==
    /\ ~running
    /\ daemonOp.op = "forceRun"
    /\ daemonOp.name = "check_credits"
    /\ daemonOp.outcome = "pending"
    /\ \E e \in BagToSet(forced) :
          /\ e.name = "check_credits"
          /\ ~e.enabled
          /\ e.lastRun = clock
          /\ ~isDue([e EXCEPT !.enabled = TRUE], clock)

\* C18: onWakeRequest is invoked at most once per qualifying event: a step of
\* the daemon makes at most one wake call, a failure of a task makes one only
\* when it brings the entry's streak of failures to the threshold (the later
\* failures of the same streak make none), and a self-stop makes exactly one.
C18_OneWakePerEvent ==
    [][DaemonStep =>
        /\ Len(wakeLog') <= 1
        /\ \A n \in HbNames :
              WakesOf(wakeLog', "task_failed", n) # {} =>
                  failStreak'[n] = MAX_CONSECUTIVE_TASK_ERRORS
        /\ (running /\ ~running' /\ daemonOp'.op # "stop") =>
              /\ Len(wakeLog') = 1
              /\ wakeLog'[1].kind = "daemon_stopped"
    ]_vars

\* a step in which check_credits ran and computed a tier
CheckStep == creditKv' # creditKv /\ creditCheck'.outcome = "ok"

\* C19: check_credits returns shouldWake=true only when the tier it computes is
\* critical or dead and strictly more severe than the tier the previous check
\* recorded; a check whose tier is the same as or less severe than that one
\* never wakes.
C19_WakeOnlyOnDowngrade ==
    [][(CheckStep /\ creditCheck'.shouldWake) =>
        /\ creditCheck'.tier \in {"critical", "dead"}
        /\ last_credit_check # NoRecord
        /\ Severity(creditCheck'.tier) > Severity(last_credit_check.tier)
    ]_vars

\* C20: a check that computes the same tier as the check before it returns
\* shouldWake=false; of two consecutive checks that compute critical the
\* second does not wake.
C20_SameTierNeverWakes ==
    [][(CheckStep /\ last_credit_check # NoRecord
                  /\ creditCheck'.tier = last_credit_check.tier) =>
        ~creditCheck'.shouldWake
    ]_vars

\* the second of two consecutive checks that computed critical has returned
\* shouldWake=false
C20_Witness ==
    /\ creditCheck.outcome = "ok"
    /\ creditCheck.tier = "critical"
    /\ creditCheck.prevTier = "critical"
    /\ last_credit_check.tier = "critical"
    /\ ~creditCheck.shouldWake

\* a step in which heartbeat_ping ran with a balance
PingStep == pingKv' # pingKv /\ pingResult'.outcome = "ok"

\* the parts of a message
Parts(message) == {message[i] : i \in 1..Len(message)}

TransitionStep == <<tier_transitions, transitionCall>>' # <<tier_transitions, transitionCall>>

\* C22: recordTransition appends exactly one ModeTransition when the new tier
\* differs from the previous tier, and leaves the stored history unchanged
\* when the two are equal.
C22_TransitionOnlyOnChange ==
    [][TransitionStep =>
        IF transitionCall'.from # transitionCall'.to
        THEN tier_transitions' = Append(tier_transitions, transitionCall')
        ELSE tier_transitions' = tier_transitions
    ]_vars

\* C23: canRunInference is true for normal, low_compute and critical and
\* false for dead.
C23_NoInferenceWhenDead ==
    /\ inferenceCheck.tier \in {"normal", "low_compute", "critical"} =>
          inferenceCheck.allowed
    /\ inferenceCheck.tier = "dead" => ~inferenceCheck.allowed

\* canRunInference has refused the dead tier
C23_Witness ==
    /\ inferenceCheck.tier = "dead"
    /\ ~inferenceCheck.allowed

\* a step in which edit_own_file was called
EditOwnFileStep ==
    /\ <<fileVars, mods>>' # <<fileVars, mods>>
    /\ fileCall'.tool = "edit_own_file"

\* C24: edit_own_file calls editFile only after validateModification has
\* allowed the same path and content size; when the validation fails the call
\* returns a BLOCKED result with the reason and the outcome of every check,
\* and no write and no audit entry is made.
C24_EditOnlyAfterValidation ==
    [][EditOwnFileStep =>
        LET v == validateModification(mods, clock, fileCall'.path, fileCall'.size)
        IN IF v.allowed
           THEN /\ fileCall'.result # "BLOCKED"
                /\ sandboxWrite'.called
                /\ sandboxWrite'.path = fileCall'.path
                /\ sandboxWrite'.content.length = fileCall'.size
                /\ Len(mods') = Len(mods) + 1
           ELSE /\ fileCall'.result = "BLOCKED"
                /\ fileCall'.reason = v.reason
                /\ Len(fileCall'.checks) = Len(v.checks)
                /\ \A i \in 1..Len(v.checks) :
                      /\ fileCall'.checks[i].name = v.checks[i].name
                      /\ fileCall'.checks[i].verdict = "PASS" <=> v.checks[i].passed
                /\ ~sandboxWrite'.called
                /\ files' = files
                /\ mods' = mods
    ]_vars

\* edit_own_file was refused on an unprotected path for the size of the
\* content: the result names the size check and reports the other checks as
\* passed, and nothing was written
C24_Witness ==
    /\ fileCall.tool = "edit_own_file"
    /\ fileCall.path = HelperPath
    /\ fileCall.size = HugeContent.length
    /\ fileCall.result = "BLOCKED"
    /\ fileCall.reason = "size"
    /\ \E i \in 1..Len(fileCall.checks) :
          fileCall.checks[i].name = "protected_file" /\ fileCall.checks[i].verdict = "PASS"
    /\ ~sandboxWrite.called
    /\ mods = <<>>

\* the names of the rows of the heartbeat table
EntryNames(table) == {n \in HbNames : table[n].present}

\* C25: after modify_heartbeat with action remove the entry of that name still
\* exists with enabled = false; no modify_heartbeat action makes the set of
\* entry names shrink; and a scheduled tick never starts the task of an entry
\* that is disabled.
C25_RemoveOnlyDisables ==
    [][/\ (selfModOps' # selfModOps /\ selfModCall'.tool = "modify_heartbeat"
                                    /\ selfModCall'.result = "disabled") =>
              \E n \in HbNames :
                  /\ hbEntries'[n].present
                  /\ ~hbEntries'[n].enabled
                  /\ \A m \in HbNames \ {n} : hbEntries'[m] = hbEntries[m]
       /\ EntryNames(hbEntries) \subseteq EntryNames(hbEntries')
       /\ \A t \in BagToSet(ticks') \ BagToSet(ticks) :
              t.pc = "task" => hbEntries'[t.entries[t.idx].name].enabled
    ]_vars

\* the control state of the first daemon
Control == <<running, timerArmed, consecutiveTickErrors, consecutiveTaskErrors>>

\* C26: two daemons made by separate createHeartbeatDaemon calls share no
\* control state: a step of one (a start, a stop, a timer callback, a failing
\* tick or task) leaves the running flag, the timer and the failure counters
\* of the other as they were.
C26_IndependentDaemons ==
    [][/\ peer' # peer => Control' = Control
       /\ DaemonStep => peer' = peer
    ]_vars

\* the second daemon has stopped itself after five failed ticks while the
\* first is running with no failed tick and with a task at three failures
C26_Witness ==
    /\ ~peer.running
    /\ ~peer.timerArmed
    /\ peer.consecutiveTickErrors = MAX_CONSECUTIVE_TICK_ERRORS
    /\ running
    /\ timerArmed
    /\ consecutiveTickErrors = 0
    /\ \E n \in HbNames : consecutiveTaskErrors[n] = MAX_CONSECUTIVE_TASK_ERRORS

\* C27: no tool call deletes the agent's own sandbox: delete_sandbox called
\* with the own sandbox id is answered blocked and does not call
\* deleteSandbox, whatever the calls before.
C27_OwnSandboxKept ==
    /\ OwnSandboxId \in sandboxes
    /\ deleteCall.target = OwnSandboxId =>
          (deleteCall.result = "Blocked" /\ ~deleteCall.called)
    /\ deleteCall.called => deleteCall.target # OwnSandboxId

\* delete_sandbox on the own id was blocked while a sandbox the agent had
\* created exists
C27_Witness ==
    /\ deleteCall.target = OwnSandboxId
    /\ deleteCall.result = "Blocked"
    /\ ~deleteCall.called
    /\ sandboxes = {OwnSandboxId, "sbx-a"}

\* a step in which getWallet was called
GetWalletStep == walletVars' # walletVars /\ walletCall'.op = "getWallet"

\* the keys the wallet files hold
StoredKeys == {f.key : f \in {g \in {walletFile, walletBackup} : g.kind = "key"}}

\* C28: getWallet generates a keypair only when neither wallet.json nor its
\* backup exists, and then returns isNew=true; while a wallet file exists a
\* getWallet call returns a stored identity with isNew=false or throws, and
\* neither generates a keypair nor replaces a key a file holds, corrupt files
\* included.
C28_NoReplacementIdentity ==
    [][GetWalletStep =>
        LET existed == existsSync(walletFile) \/ existsSync(walletBackup)
        IN /\ keysGenerated' # keysGenerated =>
                 (~existed /\ walletCall'.outcome = "ok" /\ walletCall'.isNew)
           /\ walletCall'.isNew => ~existed
           /\ existed =>
                 /\ keysGenerated' = keysGenerated
                 /\ \/ walletCall'.outcome = "throw"
                    \/ /\ walletCall'.outcome = "ok"
                       /\ ~walletCall'.isNew
                       /\ walletCall'.key \in StoredKeys
                 /\ walletFile.kind = "key" => walletFile' = walletFile
                 /\ walletBackup.kind = "key" => walletBackup' = walletBackup
    ]_vars

\* with both files corrupt getWallet has thrown; the one keypair ever
\* generated is the first
C28_Witness ==
    /\ walletCall.op = "getWallet"
    /\ walletCall.outcome = "throw"
    /\ walletFile.kind = "garbage"
    /\ walletBackup.kind = "badshape"
    /\ keysGenerated = 1

C30_Dueness ==
    (dueCall.called /\ dueCall.enabled) =>
        /\ (CronPeriod(dueCall.schedule) # 0 /\ dueCall.lastRun = NullTime) => dueCall.due
        /\ (dueCall.schedule = "0 * * * *" /\ dueCall.lastRun = dueCall.now) => ~dueCall.due
        /\ (/\ dueCall.schedule = "0 * * * *"
            /\ dueCall.lastRun # NullTime
            /\ dueCall.now >= dueCall.lastRun + CronPeriod("0 * * * *")) => dueCall.due

\* C31: every execution of an entry's task by the daemon, whether the task
\* resolves or throws, sets the lastRun of that entry to the time of the
\* execution.
C31_LastRunOnEveryAttempt ==
    [][(DaemonStep /\ daemonOp'.op = "task") =>
          hbEntries'[daemonOp'.name].lastRun = clock
    ]_vars

\* C32: a configuration error never fails a tick: an entry whose cron
\* expression is empty or does not parse is never run, an entry whose task is
\* not in the registry is never executed (so it causes no wake and no change
\* of a failure counter or of lastRun), the entries after it are still
\* processed, and the tick counts as successful.
C32_ConfigErrorsSkipped ==
    [][(DaemonStep /\ daemonOp'.op \in {"balance", "task"}) =>
        /\ \E t \in BagToSet(ticks) :
              /\ (t.pc = "balance") = (daemonOp'.op = "balance")
              /\ daemonOp'.op = "task" =>
                    /\ t.entries[t.idx].name = daemonOp'.name
                    /\ t.entries[t.idx].schedule # ""
                    /\ CronPeriod(t.entries[t.idx].schedule) # 0
                    /\ t.entries[t.idx].task \in BUILTIN_TASKS
              /\ LET rest == {k \in (t.idx + 1)..Len(t.entries) :
                                 RunsIn(t.entries[k], daemonOp'.tier)}
                 IN IF rest = {}
                    THEN ticks' = ticks (-) SetToBag({t})
                    ELSE \E u \in BagToSet(ticks') :
                            u.pc = "task" /\ u.entries = t.entries /\ u.idx \in rest
        /\ consecutiveTickErrors' = consecutiveTickErrors
        /\ tickFailStreak' = 0
    ]_vars

\* C33: the stored transition history never holds more than 50 entries, and
\* after an append it holds the 50 most recently appended entries in the order
\* of their insertion: the oldest are evicted first.
C33_HistoryBounded ==
    [][/\ Len(tier_transitions') <= 50
       /\ TransitionStep =>
             LET appended == Append(tier_transitions, transitionCall')
                 kept == Len(tier_transitions')
             IN /\ kept = IF Len(appended) > 50 THEN 50 ELSE Len(appended)
                /\ \A i \in 1..kept :
                      tier_transitions'[i] = appended[Len(appended) - kept + i]
    ]_vars

\* the history is full and its two oldest entries have been evicted: the
\* oldest entry left is the third transition of the agent, away from critical
C33_Witness ==
    /\ Len(tier_transitions) = 50
    /\ tier_transitions[1].from = "critical"
    /\ tier_transitions[50] = transitionCall

\* the ids of a sequence of messages
IdsOf(messages) == {messages[i] : i \in 1..Len(messages)}

\* C34: over any sequence of check_social_inbox executions, polls with
\* overlapping or repeated messages included, an id seen by an earlier poll
\* is not inserted again and not counted toward a wake: every id is inserted
\* at most once, and a poll that delivers only seen ids returns
\* shouldWake = false.
C34_InboxDeduplicated ==
    [][inboxVars' # inboxVars =>
        /\ \A id \in MsgIds :
              /\ inbox'[id] <= 1
              /\ id \in inbox_seen => inbox'[id] = inbox[id]
        /\ inboxPoll'.newCount = Cardinality(IdsOf(inboxPoll'.messages) \ inbox_seen)
        /\ inboxPoll'.shouldWake = (inboxPoll'.newCount > 0)
        /\ IdsOf(inboxPoll'.messages) \subseteq inbox_seen => ~inboxPoll'.shouldWake
    ]_vars

\* a poll has delivered two messages seen before: nothing was inserted and
\* no wake was asked for
C34_Witness ==
    /\ inboxPoll.outcome = "ok"
    /\ inboxPoll.messages = <<"m1", "m2">>
    /\ inboxPoll.newCount = 0
    /\ ~inboxPoll.shouldWake
    /\ inbox = [id \in MsgIds |-> IF id = "m3" THEN 0 ELSE 1]

C36_HealthCheckWakesOnFailure ==
    [][healthVars' # healthVars =>
        LET failed == healthCheck'.outcome = "threw" \/ healthCheck'.exitCode # 0
        IN /\ healthCheck'.shouldWake = failed
           /\ failed => last_health_check' = last_health_check
           /\ ~failed => last_health_check' = clock
    ]_vars

\* a check at time 1 has found exit code 127 and woken the agent; the
\* recorded time is still that of the successful check at time 0
C36_Witness ==
    /\ healthCheck.outcome = "exit"
    /\ healthCheck.exitCode = 127
    /\ healthCheck.shouldWake
    /\ last_health_check = 0
    /\ clock = 1

\* what a call of registerAgent never does, whatever the chain answers: a
\* fourth attempt, an attempt for another address than the one generated
\* first, a second asset, a second stored entry, a throw before the third
\* attempt has failed or of another error than the last, a throw after an
\* entry was stored
RegisterAgentBounds ==
    /\ reg.attempt <= 3
    /\ reg.targets \subseteq {reg.asset}
    /\ reg.minted <= 1
    /\ reg.stored <= 1
    /\ reg.pc = "returned" <=> reg.stored = 1
    /\ reg.pc = "thrown" =>
          (reg.attempt = 3 /\ reg.thrown = reg.lastErr /\ reg.stored = 0)

\* C37, as stated: registerAgent makes at most 3 mint attempts for the one
\* address generated before the first; an attempt that fails because the
\* asset exists recovers the on-chain entry and no further mint is attempted;
\* a call mints at most one asset and stores at most one entry; after 3
\* failed attempts it throws the last error and has stored nothing.
C37_RegisterOnce ==
    [][/\ RegisterAgentBounds'
       /\ reg.pc = "fetch" => reg'.pc \in {"fetch", "returned"}
    ]_vars

\* C37, amended: registerAgent makes at most 3 mint attempts for the one
\* address generated before the first; an attempt that fails because the
\* asset exists fetches the on-chain asset, and stores the recovered entry
\* and returns when the fetch succeeds, while a failed fetch ends the attempt
\* as a failed one, retried or thrown like any other; a call mints at most one
\* asset and stores at most one entry; after 3 failed attempts it throws the
\* last error and has stored nothing.
C37_RegisterOnceAmended ==
    [][/\ RegisterAgentBounds'
       /\ (reg.pc = "mint" /\ reg'.lastErr = "already in use" /\ reg' # reg) =>
             reg'.pc = "fetch"
       /\ (reg.pc = "fetch" /\ reg' # reg) =>
             \/ /\ reg'.pc = "returned"
                /\ registryEntries' =
                      Append(registryEntries,
                             [agentId |-> reg.asset, txSignature |-> "recovered"])
                /\ chainAssets' = chainAssets
             \/ /\ reg'.lastErr = "fetch failed"
                /\ registryEntries' = registryEntries
                /\ reg'.pc = IF reg.attempt < 3 THEN "sleep" ELSE "thrown"
    ]_vars

\* the first transaction landed without confirmation, the second attempt
\* found the asset and its fetch failed, the third recovered the entry: one
\* asset, one stored entry
C37_Witness ==
    /\ reg.pc = "returned"
    /\ reg.attempt = 3
    /\ reg.lastErr = "already in use"
    /\ reg.minted = 1
    /\ reg.stored = 1
    /\ registryEntries = <<[agentId |-> 1, txSignature |-> "recovered"]>>

\* C38: the whole-tick failure streak does not carry across a restart: when
\* the daemon has stopped itself on 5 failed ticks in a row, a later start()
\* begins with a streak of zero, so a first tick that fails leaves the
\* restarted daemon running, with one failure counted and no wake.
C38_RestartClearsStreak ==
    [][(/\ DaemonStep
        /\ daemonOp'.op = "start"
        /\ daemonOp'.outcome = "throw"
        /\ ~running
        /\ consecutiveTickErrors >= MAX_CONSECUTIVE_TICK_ERRORS) =>
              /\ running'
              /\ timerArmed'
              /\ consecutiveTickErrors' = 1
              /\ wakeLog' = <<>>
    ]_vars

\* C39: forceRun is serialized with the scheduled ticks: no task started by
\* forceRun is in progress while a task of a tick is in progress, so the task
\* of one entry is never executing twice at once.
C39_ForceRunSerialized ==
    \A t \in BagToSet(ticks) : t.pc = "task" => forced = EmptyBag

\* C40: a check_credits that finds no prev_credit_tier in the store never
\* returns shouldWake=true, whatever tier it computes, and only records the
\* tier as the marker; a check that wakes has found the marker of an earlier
\* check, holding a tier other than the one it computes.
C40_FirstCheckNeverWakes ==
    [][CheckStep =>
        /\ prev_credit_tier = None =>
              /\ ~creditCheck'.shouldWake
              /\ prev_credit_tier' = creditCheck'.tier
        /\ creditCheck'.shouldWake =>
              /\ prev_credit_tier \in Tiers
              /\ prev_credit_tier # creditCheck'.tier
    ]_vars

\* the first check on an empty store computed critical or dead, recorded it
\* as the marker and did not wake
C40_Witness ==
    /\ creditCheck.outcome = "ok"
    /\ creditCheck.prevTier = None
    /\ creditCheck.tier \in {"critical", "dead"}
    /\ ~creditCheck.shouldWake
    /\ prev_credit_tier = creditCheck.tier

(***************************************************************************)
(* Specifications.                                                         *)
(***************************************************************************)
Init ==
    /\ credits = 0
    /\ tier = "unset"
    /\ prevCredits = 0
    /\ prevTier = "unset"
    /\ execCommand = <<>>
    /\ execResult = None
    /\ sandboxExec = NoCall
    /\ clock = 0
    /\ mods = <<>>
    /\ ulidCount = 0
    /\ files = [p \in Paths |-> OriginalContent]
    /\ fileCall = [tool |-> None]
    /\ sandboxWrite = NoCall
    /\ auditReturn = [op |-> None]
    /\ hbEntries = InitialEntries
    /\ genesisPrompt = "genesis"
    /\ selfModOps = 0
    /\ selfModCall = [tool |-> None]
    /\ running = FALSE
    /\ timerArmed = FALSE
    /\ consecutiveTickErrors = 0
    /\ consecutiveTaskErrors = [n \in HbNames |-> 0]
    /\ ticks = EmptyBag
    /\ wakeLog = <<>>
    /\ daemonOp = NoOp
    /\ failStreak = [n \in HbNames |-> 0]
    /\ tickFailStreak = 0
    /\ forced = EmptyBag
    /\ prev_credit_tier = None
    /\ last_credit_check = NoRecord
    /\ creditCheck = NoCheck
    /\ last_heartbeat_ping = NoSnapshot
    /\ last_distress = NoDistress
    /\ pingResult = NoPing
    /\ tier_transitions = <<>>
    /\ transitionCall = NoTransition
    /\ inferenceCheck = [tier |-> None, allowed |-> FALSE]
    /\ peer = NewDaemon
    /\ sandboxes = {OwnSandboxId}
    /\ deleteCall = NoDelete
    /\ walletFile = MissingFile
    /\ walletBackup = MissingFile
    /\ keysGenerated = 0
    /\ walletCall = NoWalletCall
    /\ dueCall = NoDueCall
    /\ inbox = [id \in MsgIds |-> 0]
    /\ inbox_seen = {}
    /\ social_inbox_cursor = ""
    /\ inboxPoll = NoPoll
    /\ upstream_fetch_error = None
    /\ upstream_status = NoStatus
    /\ updateCheck = NoUpdateCheck
    /\ last_health_check = NullTime
    /\ healthCheck = NoHealthCheck
    /\ reg = NoRegistration
    /\ chainAssets = {}
    /\ registryEntries = <<>>
    /\ signers = 0

TierNext == EvaluateTier \/ NewBalance

ExecNext == ExecTool \/ ExecSettle \/ ExecReturn

FilesNext == WriteFileTool \/ EditOwnFileTool \/ Tick

SpecTier == Init /\ [][TierNext]_vars

SpecExec == Init /\ [][ExecNext]_vars

SpecFiles == Init /\ [][FilesNext]_vars

AuditNext == LogModification \/ GetRecentModifications \/ GenerateAuditReport \/ Tick

SpecAudit == Init /\ [][AuditNext]_vars

SelfModNext ==
    InstallNpmPackage \/ PullUpstream \/ ModifyHeartbeat \/ UpdateGenesisPrompt \/ Tick

SpecSelfMod == Init /\ [][SelfModNext]_vars

\* the daemon over a database whose reads succeed
DaemonNext ==
    \/ Start(DbReadsHealthy, MaxInFlight)
    \/ Stop
    \/ TimerFire(DbReadsHealthy, MaxInFlight)
    \/ BalanceSettle
    \/ TaskSettle(TaskOutcomes)
    \/ Tick

SpecDaemon == Init /\ [][DaemonNext]_vars

\* the daemon over a database whose reads can throw, with tasks that do not
DaemonFaultsNext ==
    \/ Start(DbReads, MaxInFlight)
    \/ Stop
    \/ TimerFire(DbReads, MaxInFlight)
    \/ BalanceSettle
    \/ TaskSettle(TaskOutcomesHealthy)
    \/ Tick

SpecDaemonFaults == Init /\ [][DaemonFaultsNext]_vars

\* the daemon with one more tick in flight, over a database whose reads succeed
MaxOverlap == MaxInFlight + 1

DaemonOverlapNext ==
    \/ Start(DbReadsHealthy, MaxOverlap)
    \/ Stop
    \/ TimerFire(DbReadsHealthy, MaxOverlap)
    \/ BalanceSettle
    \/ TaskSettle(TaskOutcomes)
    \/ Tick

SpecDaemonOverlap == Init /\ [][DaemonOverlapNext]_vars

\* the check_credits task called again and again as time passes
CreditCheckNext == CheckCredits \/ Tick

SpecCreditCheck == Init /\ [][CreditCheckNext]_vars

\* the functions of survival/low-compute called as time passes
SurvivalNext == RecordTransition \/ CanRunInference \/ Tick

SpecSurvival == Init /\ [][SurvivalNext]_vars

\* the daemon over healthy collaborators while the agent calls modify_heartbeat
HeartbeatEditNext ==
    \/ Start(DbReadsHealthy, MaxInFlight)
    \/ TimerFire(DbReadsHealthy, MaxInFlight)
    \/ BalanceSettle
    \/ TaskSettle(TaskOutcomesHealthy)
    \/ ModifyHeartbeat
    \/ Tick

SpecHeartbeatEdit == Init /\ [][HeartbeatEditNext]_vars

\* two daemons at one time of the clock: the first over healthy reads with
\* tasks that can throw, the second over reads that throw
TwoDaemonsNext ==
    \/ Start(DbReadsHealthy, MaxInFlight)
    \/ Stop
    \/ TimerFire(DbReadsHealthy, MaxInFlight)
    \/ BalanceSettle
    \/ TaskSettle(TaskOutcomesQuiet)
    \/ PeerStart
    \/ PeerStop
    \/ PeerTimerFire

SpecTwoDaemons == Init /\ [][TwoDaemonsNext]_vars

\* the tools that call the sandbox API
SandboxNext == CreateSandboxTool \/ DeleteSandboxTool

SpecSandbox == Init /\ [][SandboxNext]_vars

\* the daemon beside an agent that gives an entry a schedule that does not
\* parse or a task that is no built-in task
ConfigNames == {"heartbeat_ping", "custom_task"}

ConfigSchedules == {"", "every day"}

ConfigTasks == {"", "constructor"}

DaemonConfigNext ==
    \/ Start(DbReadsHealthy, MaxInFlight)
    \/ TimerFire(DbReadsHealthy, MaxInFlight)
    \/ BalanceSettle
    \/ TaskSettle(TaskOutcomesHealthy)
    \/ ModifyHeartbeatWith({"update"}, ConfigNames, ConfigSchedules, ConfigTasks,
                           {"undefined"})
    \/ Tick

SpecDaemonConfig == Init /\ [][DaemonConfigNext]_vars

\* recordTransition called without end, for one tier change after the other
HistoryNext ==
    \/ RecordTransitionWith({ChainPair}, TransitionsKept + 1)
    \/ CanRunInference
    \/ Tick

SpecHistory == Init /\ [][HistoryNext]_vars

\* the check_social_inbox task called again and again
SpecInbox == Init /\ [][CheckSocialInbox]_vars

\* the check_for_updates and health_check tasks called again and again as
\* time passes
TasksNext == CheckForUpdates \/ HealthCheck \/ Tick

SpecTasks == Init /\ [][TasksNext]_vars

\* registerAgent called once and again, over a chain and an RPC that fail
RegistryNext == RegisterAgent \/ MintSettle \/ FetchSettle \/ SleepDone

SpecRegistry == Init /\ [][RegistryNext]_vars

\* forceRun beside a daemon whose ticks run tasks
ForceOverlapNext ==
    \/ Start(DbReadsHealthy, MaxInFlight)
    \/ BalanceSettle
    \/ TaskSettle(TaskOutcomes)
    \/ ForceRun(DbReadsHealthy)
    \/ ForceSettle(TaskOutcomes)

SpecForceOverlap == Init /\ [][ForceOverlapNext]_vars

\* isDue applied to entries and times of every kind
SpecDue == Init /\ [][IsDueCall]_vars

\* the wallet API over files the environment can damage
WalletNext == GetWallet \/ WalletExists \/ DamageWallet

SpecWallet == Init /\ [][WalletNext]_vars

\* the heartbeat_ping task called again and again as time passes
PingNext == HeartbeatPing \/ Tick

SpecPing == Init /\ [][PingNext]_vars

\* forceRun beside a daemon whose own reads of the table fail, so that its
\* ticks end before any task; the tasks forceRun executes do not throw
ForceRunNext ==
    \/ Start(DbReadsDown, MaxInFlight)
    \/ Stop
    \/ TimerFire(DbReadsDown, MaxInFlight)
    \/ ForceRun(DbReads)
    \/ ForceSettle(TaskOutcomesHealthy)
    \/ Tick

SpecForceRun == Init /\ [][ForceRunNext]_vars

\* the daemon, once started and never stopped from outside, over a database
\* whose reads can throw and with tasks that can throw and ask for no wake
DaemonMixedNext ==
    \/ Start(DbReads, MaxInFlight)
    \/ TimerFire(DbReads, MaxInFlight)
    \/ BalanceSettle
    \/ TaskSettle(TaskOutcomesQuiet)
    \/ Tick

SpecDaemonMixed == Init /\ [][DaemonMixedNext]_vars

=============================================================================
